---- MODULE Spec2Model ----
(***************************************************************************)
(* A model of the MISC debugger's debug-adapter bridge.                    *)
(*                                                                         *)
(* One debug session is built with one of three runtime adapters:          *)
(*   "http"   DebugSession (src/src/debugSession.ts) over the HTTP         *)
(*            RuntimeClient (src/src/runtimeClient.ts);                    *)
(*   "local"  MockDebugSession (src/unnamed/part_000) over the local mock  *)
(*            RuntimeAdapter (src/unnamed/part_002);                       *)
(*   "stream" MockDebugSession over the socket RuntimeAdapter              *)
(*            (src/unnamed/part_001).                                      *)
(*                                                                         *)
(* Node's scheduling is modelled by its macrotasks: one action is one      *)
(* callback of the event loop together with every promise continuation     *)
(* (microtask) it triggers.  A notification raised with sendEvent is put   *)
(* on immQ (setImmediate) and emitted by a later macrotask, RunImmediate.  *)
(* log is the protocol channel towards the client: the requests in the     *)
(* order they were dispatched and the responses and events in the order    *)
(* they were written.                                                      *)
(***************************************************************************)
EXTENDS Integers, Sequences, FiniteSets, TLC

VARIABLES
    mode,               \* which runtime adapter the session was built with
    pipelined,          \* whether the client sends requests without awaiting answers
    clientLinesStartAt1,\* the client's line base (DebugSession._clientLinesStartAt1)
    reqs,               \* the requests dispatched so far, each with its handler's state
    log,                \* requests, responses and events on the client channel, in order
    immQ,               \* notifications deferred with setImmediate, not yet emitted
    calls,              \* HTTP calls in flight
    bkBps,              \* the backend's breakpoint set (backend-native lines)
    sourcePath,         \* RuntimeClient.sourcePath / RuntimeAdapter.sourcePath
    sourceText,         \* RuntimeClient.sourceText
    faults,             \* unhandled exceptions and unhandled promise rejections so far
    nfail,              \* transport failures injected so far
    mockLine,           \* RuntimeAdapter.__mockLine (local mock)
    sourceLines,        \* RuntimeAdapter.sourceLines (local mock, socket adapter)
    stepLog,            \* the calls of RuntimeAdapter.step that have resolved, in order
    client,             \* RuntimeAdapter.client and its connection (socket adapter)
    subs,               \* the subscribers of dataSubject (socket adapter)
    toBackend,          \* the commands written to the socket, not yet handled
    sockIn,             \* the messages the backend wrote, not yet read
    fresh,              \* the next fresh token: v4() guids, subscription order
    bkRemain,           \* the steps the socket backend's program has left
    wire,               \* the characters the backend wrote, not yet handed to 'data'
    wrote,              \* the messages the backend wrote as characters, in order
    dataSubject         \* the objects handed to dataSubject.next by the framing

vars == <<mode, pipelined, clientLinesStartAt1, reqs, log, immQ, calls, bkBps,
          sourcePath, sourceText, faults, nfail, mockLine, sourceLines, stepLog,
          client, subs, toBackend, sockIn, fresh, bkRemain, wire, wrote, dataSubject>>

httpVars == <<calls, bkBps, nfail>>
localVars == <<mockLine, sourceLines, stepLog>>
framingVars == <<wire, wrote, dataSubject>>
streamVars == <<client, subs, toBackend, sockIn, fresh, bkRemain, framingVars>>

-----------------------------------------------------------------------------
(* Bounds of the model *)

\* requests the client sends in one session over the HTTP client
MaxReqs == 2
\* lines of the longest program file
MaxLines == 3
\* launch requests in one session over a mock adapter
MaxLaunches == 1
\* HTTP calls that fail in transport in one session
MaxFailures == 1
\* lines of the program the backend has loaded (its valid lines are 0..BkLines-1)
BkLines == 2
\* requests of a client that does not await the answers
MaxPipelined == 2
MaxMessages == 2
MaxEmits == 3

-----------------------------------------------------------------------------
(* Values *)

\* `undefined` as a path or as a line's text, and `undefined` as a text or line array
Undefined == <<"undefined", 0>>
NoText == <<>>

\* the program files: <<"/w/prog", n>> is the path of a program of n lines
Path(n) == <<"/w/prog", n>>
Paths == {Path(n) : n \in 1..MaxLines}

\* the file reader: the text at a path, as the lines /\r?\n/ splits it into
ReadFile(path) == [k \in 1..path[2] |-> <<"text of line", k - 1>>]

\* the launch arguments the client may send: <<program, stopOnEntry>>
LaunchArgs == {<<p, (p[2] % 2 = 1)>> : p \in Paths}

\* line lists a setBreakpoints request may carry
LineLists == {<<>>, <<1>>, <<2>>, <<1, 2>>, <<2, 1>>}

\* the launch and the line lists of the pipelined client
StreamLaunchArgs == {<<Path(1), TRUE>>}
StreamLineLists == {<<1>>, <<2, 1>>}

NoBody == [none |-> TRUE]

\* the result an HTTP call delivers to its subscriber
Pending == [st |-> "pending", error |-> "", event |-> "", verified |-> FALSE,
            line |-> 0, id |-> 0, bps |-> {}, frames |-> <<>>, vars |-> <<>>]
OkData == [Pending EXCEPT !.st = "ok"]
NullData == [Pending EXCEPT !.st = "null"]

-----------------------------------------------------------------------------
(* Coordinate translation (vscode-debugadapter's DebugSession, configured  *)
(* by the constructor: the debugger's lines start at 0)                    *)

debuggerLinesStartAt1 == FALSE

convertClientLineToDebugger(l) ==
    IF debuggerLinesStartAt1
    THEN (IF clientLinesStartAt1 THEN l ELSE l + 1)
    ELSE (IF clientLinesStartAt1 THEN l - 1 ELSE l)

\* a conversion that takes the client's base to be the debugger's
convertDebuggerLineToClient_sameBase(l) == l

convertDebuggerLineToClient(l) ==
    IF debuggerLinesStartAt1
    THEN (IF clientLinesStartAt1 THEN l ELSE l - 1)
    ELSE (IF clientLinesStartAt1 THEN l + 1 ELSE l)

-----------------------------------------------------------------------------
(* The client channel *)

ReqMsg(i, kind) == [t |-> "request", req |-> i, name |-> kind, body |-> NoBody]
Response(i, kind, body) == [t |-> "response", req |-> i, name |-> kind, body |-> body]
ErrorResponse(i, kind, body) == [t |-> "error", req |-> i, name |-> kind, body |-> body]
Event(name, body) == [t |-> "event", req |-> 0, name |-> name, body |-> body]

threadID == 1

\* a stopped event that names the thread after its position, from 0
StoppedEvent_thread0(reason) == Event("stopped", [reason |-> reason, threadId |-> 0])

\* setupEvents: the outward events one emitted notification produces
StoppedEvent(reason) == Event("stopped", [reason |-> reason, threadId |-> threadID])

\* a string value, as an argument of a notification
Str(str) == <<"string", str>>

\* a listener that takes every defined detail to be present
Truthy_defined(x) == x # Undefined

\* `if (exception)`: neither undefined nor the empty string
Truthy(x) == x # Undefined /\ x # Str("")

setupEvents(n) ==
    CASE n.ev = "stopOnEntry" -> <<StoppedEvent("entry")>>
      [] n.ev = "stopOnStep" -> <<StoppedEvent("step")>>
      [] n.ev = "stopOnBreakpoint" -> <<StoppedEvent("breakpoint")>>
      [] n.ev = "stopOnException" ->
            IF Truthy(n.arg)
            THEN <<StoppedEvent("exception(" \o n.arg[2] \o ")")>>
            ELSE <<StoppedEvent("exception")>>
      [] n.ev = "breakpointValidated" /\ n.arg # Undefined ->
            <<Event("breakpoint", [reason |-> "changed",
                                   verified |-> n.arg.verified, id |-> n.arg.id])>>
      [] n.ev = "output" ->
            <<Event("output", [text |-> <<n.text, "\n">>, source |-> n.file,
                               line |-> convertDebuggerLineToClient(n.line)])>>
      [] n.ev = "end" -> <<Event("terminated", NoBody)>>
      [] OTHER -> <<>>

\* the 'breakpointValidated' listener reads `breakpoint.verified`: it throws when
\* the notification was emitted without a breakpoint
setupEvents_throws(n) == n.ev = "breakpointValidated" /\ n.arg = Undefined

\* a notification passed to sendEvent: the name, the first argument of a
\* 'stopOnException' or 'breakpointValidated', the arguments of an 'output'
NotifBy(ev, i) ==
    [ev |-> ev, by |-> i, arg |-> Undefined, text |-> Undefined, file |-> Undefined,
     line |-> 0]

-----------------------------------------------------------------------------
(* Requests *)

NewReq(kind, pc) ==
    [kind |-> kind, pc |-> pc, lines |-> <<>>, stop |-> FALSE, path |-> Undefined,
     got |-> <<>>, raised |-> <<>>, steps |-> 0, ended |-> FALSE, from |-> 0,
     nulls |-> 0, solo |-> TRUE, prog |-> NoText, guids |-> <<>>, woke |-> "",
     order |-> <<>>]

Ids == 1..Len(reqs)

Dispatch(r) ==
    /\ reqs' = Append(reqs, r)
    /\ log' = Append(log, ReqMsg(Len(reqs) + 1, r.kind))

\* a handler that is still waiting for the backend or for the configuration, or
\* that is inside its step loop
Waiting(i) ==
    \/ reqs[i].pc \in {"waitConfig", "notified", "connecting"}
    \/ reqs[i].pc = "looping" /\ mode = "local"
    \/ \E c \in calls : c.req = i
    \/ (\E s \in subs : s.req = i) /\ (toBackend # <<>> \/ sockIn # <<>>)

\* requests the client may send in one session
MaxRequests ==
    CASE mode = "http" -> MaxReqs
      [] pipelined -> MaxPipelined
      [] OTHER -> MaxLines + 1

\* the client sends its next request once it has read what the session wrote,
\* and none after a disconnect
CanDispatch ==
    /\ Len(reqs) < MaxRequests
    /\ ~\E j \in Ids : reqs[j].kind = "disconnect"
    /\ pipelined \/ (immQ = <<>> /\ \A i \in Ids : ~Waiting(i))

\* an HTTP call made by request i: request(method, controller, endpoint, body)
Call(i, slot, ep, arg) == [req |-> i, slot |-> slot, ep |-> ep, arg |-> arg]

-----------------------------------------------------------------------------
(* The execution backend behind the HTTP endpoints (the environment)       *)

StepEvents ==
    {"stopOnStep", "end", "", "stopOnBreakpoint", "stopOnException", "breakpointValidated"}
LoadErrors == {"", "load failed"}
StartErrors == {"", "start failed"}

\* the stacks the backend may report: no frame, one, or two, innermost first
BackendFrames ==
    {<<>>,
     <<[index |-> 0, name |-> "main", file |-> "backend", line |-> 0]>>,
     <<[index |-> 0, name |-> "callee", file |-> "backend", line |-> 1],
       [index |-> 1, name |-> "main", file |-> "backend", line |-> 0]>>}

\* the replies the backend may give to call c
BackendReplies(c) ==
    CASE c.ep = "Debug/Load" -> {[OkData EXCEPT !.error = e] : e \in LoadErrors}
      [] c.ep = "Debug/Start" ->
            {[OkData EXCEPT !.error = e,
                            !.event = IF c.arg = 1 THEN "stopOnEntry" ELSE ""] :
                e \in StartErrors}
      [] c.ep = "Debug/Step" -> {[OkData EXCEPT !.event = v] : v \in StepEvents}
      [] c.ep = "Breakpoint/Set" ->
            {[OkData EXCEPT !.verified = (c.arg \in 0..(BkLines - 1)),
                            !.line = c.arg, !.id = c.arg + 10]}
      [] c.ep = "Breakpoint/Get" -> {[OkData EXCEPT !.bps = bkBps]}
      [] c.ep = "Stackframe/Get" -> {[OkData EXCEPT !.frames = fr] : fr \in BackendFrames}
      [] OTHER -> {OkData}

\* the backend's breakpoint set after it has processed call c
BackendBreakpoints(c) ==
    CASE c.ep = "Breakpoint/Set" -> bkBps \cup {c.arg}
      [] c.ep = "Breakpoint/Clear" -> {}
      [] OTHER -> bkBps

\* what may become of call c: the backend processes it and answers with parseable
\* JSON; it processes it but the reply body is not parseable; or fetch rejects and
\* the call never reaches the backend.  The last two hand null to the subscriber
Outcomes(c) ==
    {[data |-> r, processed |-> TRUE, failed |-> FALSE] : r \in BackendReplies(c)}
    \cup (IF nfail < MaxFailures
          THEN {[data |-> NullData, processed |-> p, failed |-> TRUE] : p \in BOOLEAN}
          ELSE {})

\* RuntimeClient.request: the call completes with outcome o
request(c, o) ==
    /\ mode = "http" /\ c \in calls /\ o \in Outcomes(c)
    /\ bkBps' = IF o.processed THEN BackendBreakpoints(c) ELSE bkBps
    /\ nfail' = IF o.failed THEN nfail + 1 ELSE nfail

\* the null results request() hands to its subscriber with outcome o
Nulls(o) == IF o.failed THEN 1 ELSE 0

\* a request that raises nothing when it fails
handleError_silent(c, o) == <<>>

\* a request that raises 'end' whenever it completes
handleError_always(c, o) == <<NotifBy("end", c.req)>>

\* handleError: after handing null to the subscriber it raises 'end'
handleError(c, o) == IF o.failed THEN <<NotifBy("end", c.req)>> ELSE <<>>

-----------------------------------------------------------------------------
(* DebugSession over RuntimeClient: launch                                 *)

\* the launches the client may send in one session: any number over HTTP, one
\* more than over the socket in the local mock
Launches ==
    CASE mode = "http" -> MaxReqs
      [] mode = "local" -> MaxLaunches + 1
      [] OTHER -> MaxLaunches

\* a launch that does not wait for the configuration
launchRequest_noWait(path, stop) ==
    /\ CanDispatch
    /\ Cardinality({i \in Ids : reqs[i].kind = "launch"}) < Launches
    /\ Dispatch([NewReq("launch", "notified") EXCEPT !.path = path, !.stop = stop])
    /\ UNCHANGED <<mode, pipelined, clientLinesStartAt1, immQ, sourcePath, sourceText, faults,
                   httpVars, localVars, streamVars>>

\* launchRequest up to `await this.configurationDone.wait(1000)`
launchRequest(path, stop) ==
    /\ CanDispatch
    /\ Cardinality({i \in Ids : reqs[i].kind = "launch"}) < Launches
    /\ Dispatch([NewReq("launch", "waitConfig") EXCEPT !.path = path, !.stop = stop])
    /\ UNCHANGED <<mode, pipelined, clientLinesStartAt1, immQ, sourcePath, sourceText, faults,
                   httpVars, localVars, streamVars>>

\* configurationDoneRequest: the response is sent, then configurationDone.notify()
\* resolves the wait of every launch that is waiting.  The client sends this
\* request while a launch waits, or when nothing is in flight
configurationDoneRequest ==
    /\ mode = "http" /\ Len(reqs) < MaxRequests /\ immQ = <<>>
    /\ \A i \in Ids : Waiting(i) => reqs[i].pc = "waitConfig"
    /\ LET j == Len(reqs) + 1
       IN /\ reqs' = Append([i \in Ids |->
                                IF reqs[i].pc = "waitConfig"
                                THEN [reqs[i] EXCEPT !.pc = "notified"] ELSE reqs[i]],
                            NewReq("configurationDone", "done"))
          /\ log' = log \o <<ReqMsg(j, "configurationDone"),
                              Response(j, "configurationDone", NoBody)>>
    /\ UNCHANGED <<mode, pipelined, clientLinesStartAt1, immQ, sourcePath, sourceText, faults,
                   httpVars, localVars, streamVars>>

\* how `configurationDone.wait(1000)` ended for a launch in state pc: by notify(),
\* or else by its timeout
wait(pc) == IF pc = "notified" THEN "notify" ELSE "timeout"

\* the wait ends; RuntimeClient.start sets sourcePath, reads the file and
\* subscribes forkJoin to the Load and the Start request
start(i) ==
    /\ mode = "http" /\ i \in Ids
    /\ reqs[i].kind = "launch" /\ reqs[i].pc \in {"waitConfig", "notified"}
    /\ sourcePath' = reqs[i].path
    /\ sourceText' = ReadFile(reqs[i].path)
    /\ calls' = calls \cup {Call(i, 1, "Debug/Load", 0),
                            Call(i, 2, "Debug/Start", IF reqs[i].stop THEN 1 ELSE 0)}
    /\ reqs' = [reqs EXCEPT ![i].pc = "starting", ![i].got = <<Pending, Pending>>,
                            ![i].woke = wait(reqs[i].pc)]
    /\ UNCHANGED <<mode, pipelined, clientLinesStartAt1, log, immQ, bkBps, faults, nfail, localVars,
                   streamVars>>

\* a start that looks at the Load reply only
startError_loadOnly(data) == data[1].error

\* const error = data[0]?.error || data[1]?.error
startError(data) == IF data[1].error # "" THEN data[1].error ELSE data[2].error

\* a start that raises the event of the Start reply whatever the errors
startEvents_anyway(i, data) ==
    IF data[2].event # "" THEN <<NotifBy(data[2].event, i)>> ELSE <<>>

\* the notifications start raises from the two replies
startEvents(i, data) ==
    IF startError(data) = "" /\ data[2].event # ""
    THEN <<NotifBy(data[2].event, i)>> ELSE <<>>

\* launchRequest after `await this.runtimeClient.start(...)`
launchResponse(i, error) ==
    IF error # ""
    THEN ErrorResponse(i, "launch",
            [id |-> 1001, format |-> <<"Runtime: ", error>>, showUser |-> TRUE])
    ELSE Response(i, "launch", NoBody)

\* the result of one of the two requests arrives; when both have, start resolves
start_subscribe(c, o) ==
    /\ request(c, o)
    /\ reqs[c.req].kind = "launch"
    /\ LET i == c.req
           data == [reqs[i].got EXCEPT ![c.slot] = o.data]
       IN IF \A k \in 1..2 : data[k].st # "pending"
          THEN /\ reqs' = [reqs EXCEPT ![i].nulls = @ + Nulls(o),
                                    ![i].got = data, ![i].pc = "done",
                                       ![i].raised = startEvents(i, data)]
               /\ immQ' = immQ \o startEvents(i, data) \o handleError(c, o)
               /\ log' = Append(log, launchResponse(i, startError(data)))
          ELSE /\ reqs' = [reqs EXCEPT ![i].nulls = @ + Nulls(o),
                                    ![i].got = data]
               /\ immQ' = immQ \o handleError(c, o)
               /\ log' = log
    /\ calls' = calls \ {c}
    /\ UNCHANGED <<mode, pipelined, clientLinesStartAt1, sourcePath, sourceText, faults, localVars,
                   streamVars>>

-----------------------------------------------------------------------------
(* DebugSession over RuntimeClient: breakpoints                            *)

Unchanged_session ==
    UNCHANGED <<mode, pipelined, clientLinesStartAt1, sourcePath, sourceText, localVars, streamVars>>
Unchanged_backend == UNCHANGED <<bkBps, nfail>>

\* a clearBreakpoints that reads the breakpoints instead of clearing them
clearBreakpoints_reads(i) == Call(i, 0, "Breakpoint/Get", 0)

\* RuntimeClient.clearBreakpoints: request('PATCH', 'Breakpoint', 'Clear')
clearBreakpoints(i) == Call(i, 0, "Breakpoint/Clear", 0)

\* RuntimeClient.setBreakPoint(line): request('POST', 'Breakpoint', 'Set', { line })
setBreakPoint(i, slot, line) == Call(i, slot, "Breakpoint/Set", line)

\* a handler that does not await clearBreakpoints before it maps the lines
setBreakPointsRequest_noAwait(lines) ==
    /\ mode = "http" /\ CanDispatch
    /\ Dispatch([NewReq("setBreakpoints", "setting")
                    EXCEPT !.lines = lines,
                           !.got = [k \in 1..Len(lines) |-> Pending]])
    /\ calls' = calls \cup {clearBreakpoints(Len(reqs) + 1)} \cup
            {setBreakPoint(Len(reqs) + 1, k, convertClientLineToDebugger(lines[k])) :
                k \in 1..Len(lines)}
    /\ UNCHANGED <<immQ, faults>>
    /\ Unchanged_session /\ Unchanged_backend

\* setBreakPointsRequest up to `await this.runtimeClient.clearBreakpoints()`
setBreakPointsRequest(lines) ==
    /\ mode = "http" /\ CanDispatch
    /\ Dispatch([NewReq("setBreakpoints", "clearing") EXCEPT !.lines = lines])
    /\ calls' = calls \cup {clearBreakpoints(Len(reqs) + 1)}
    /\ UNCHANGED <<immQ, faults>>
    /\ Unchanged_session /\ Unchanged_backend

\* the breakpoints of the response, in the order of the backend's line numbers
trueBreakpoints_byLine(data) ==
    LET Rank(k) == Cardinality({j \in 1..Len(data) :
                        data[j].line < data[k].line \/ (data[j].line = data[k].line /\ j < k)})
        At(r) == CHOOSE k \in 1..Len(data) : Rank(k) = r - 1
    IN [r \in 1..Len(data) |->
            [verified |-> data[At(r)].verified,
             line |-> convertDebuggerLineToClient(data[At(r)].line),
             id |-> data[At(r)].id]]

\* the breakpoints of the response without those the backend did not verify
trueBreakpoints_verifiedOnly(data) ==
    LET all == [k \in 1..Len(data) |->
                    [verified |-> data[k].verified,
                     line |-> convertDebuggerLineToClient(data[k].line),
                     id |-> data[k].id]]
        IsVerified(b) == b.verified
    IN SelectSeq(all, IsVerified)

\* the breakpoints of the response, in the order of the requested lines
trueBreakpoints(data) ==
    [k \in 1..Len(data) |->
        [verified |-> data[k].verified,
         line |-> convertDebuggerLineToClient(data[k].line),
         id |-> data[k].id]]

\* clearBreakpoints resolves (also when the request failed); the handler then
\* issues one setBreakPoint per requested line, or answers at once when there is none
setBreakPoints_cleared(c, o) ==
    /\ request(c, o)
    /\ reqs[c.req].kind = "setBreakpoints" /\ reqs[c.req].pc = "clearing"
    /\ LET i == c.req
           lines == reqs[i].lines
       IN IF Len(lines) = 0
          THEN /\ reqs' = [reqs EXCEPT ![i].nulls = @ + Nulls(o),
                                    ![i].pc = "done"]
               /\ log' = Append(log, Response(i, "setBreakpoints", [breakpoints |-> <<>>]))
               /\ calls' = calls \ {c}
          ELSE /\ reqs' = [reqs EXCEPT ![i].nulls = @ + Nulls(o),
                                    ![i].pc = "setting",
                                       ![i].got = [k \in 1..Len(lines) |-> Pending]]
               /\ log' = log
               /\ calls' = (calls \ {c}) \cup
                    {setBreakPoint(i, k, convertClientLineToDebugger(lines[k])) :
                        k \in 1..Len(lines)}
    /\ immQ' = immQ \o handleError(c, o)
    /\ UNCHANGED faults
    /\ Unchanged_session

\* one setBreakPoint resolves.  Destructuring a null result throws, which rejects
\* Promise.all and with it the handler: nothing answers the request any more
setBreakPoints_set(c, o) ==
    /\ request(c, o)
    /\ reqs[c.req].kind = "setBreakpoints" /\ reqs[c.req].pc \in {"setting", "thrown"}
    /\ LET i == c.req
           data == [reqs[i].got EXCEPT ![c.slot] = o.data]
       IN CASE reqs[i].pc = "thrown" ->
                 /\ reqs' = [reqs EXCEPT ![i].nulls = @ + Nulls(o),
                                    ![i].got = data, ![i].order = Append(@, c.slot)]
                 /\ log' = log /\ faults' = faults
            [] reqs[i].pc = "setting" /\ o.failed ->
                 /\ reqs' = [reqs EXCEPT ![i].nulls = @ + Nulls(o),
                                    ![i].got = data, ![i].order = Append(@, c.slot), ![i].pc = "thrown"]
                 /\ log' = log /\ faults' = faults + 1
            [] reqs[i].pc = "setting" /\ ~o.failed
                    /\ (\A k \in 1..Len(data) : data[k].st = "ok") ->
                 /\ reqs' = [reqs EXCEPT ![i].nulls = @ + Nulls(o),
                                    ![i].got = data, ![i].order = Append(@, c.slot), ![i].pc = "done"]
                 /\ log' = Append(log, Response(i, "setBreakpoints",
                                    [breakpoints |-> trueBreakpoints(data)]))
                 /\ faults' = faults
            [] OTHER ->
                 /\ reqs' = [reqs EXCEPT ![i].nulls = @ + Nulls(o),
                                    ![i].got = data, ![i].order = Append(@, c.slot)]
                 /\ log' = log /\ faults' = faults
    /\ calls' = calls \ {c}
    /\ immQ' = immQ \o handleError(c, o)
    /\ Unchanged_session

\* breakpointLocationsRequest up to `await this.runtimeClient.getBreakpoints()`
breakpointLocationsRequest ==
    /\ mode = "http" /\ CanDispatch
    /\ Dispatch(NewReq("breakpointLocations", "getting"))
    /\ calls' = calls \cup {Call(Len(reqs) + 1, 0, "Breakpoint/Get", 0)}
    /\ UNCHANGED <<immQ, faults>>
    /\ Unchanged_session /\ Unchanged_backend

\* getBreakpoints resolves with the reply or null; the body is the spread reply
breakpointLocations_got(c, o) ==
    /\ request(c, o)
    /\ reqs[c.req].kind = "breakpointLocations"
    /\ reqs' = [reqs EXCEPT ![c.req].nulls = @ + Nulls(o),
                                    ![c.req].pc = "done"]
    /\ log' = Append(log, Response(c.req, "breakpointLocations", [spread |-> o.data.bps]))
    /\ calls' = calls \ {c}
    /\ immQ' = immQ \o handleError(c, o)
    /\ UNCHANGED faults
    /\ Unchanged_session

-----------------------------------------------------------------------------
(* DebugSession over RuntimeClient: inspection, stepping, disconnect       *)

\* stackTraceRequest up to `await this.runtimeClient.getStackFrames()`
stackTraceRequest ==
    /\ mode = "http" /\ CanDispatch
    /\ Dispatch(NewReq("stackTrace", "getting"))
    /\ calls' = calls \cup {Call(Len(reqs) + 1, 0, "Stackframe/Get", 0)}
    /\ UNCHANGED <<immQ, faults>>
    /\ Unchanged_session /\ Unchanged_backend

\* a getStackFrames that hands the frames on outermost first
getStackFrames_reversed(data) ==
    [k \in 1..Len(data.frames) |->
        [data.frames[Len(data.frames) + 1 - k] EXCEPT
            !.file = IF sourcePath = Undefined THEN "" ELSE sourcePath]]

\* getStackFrames: every frame's file becomes this.sourcePath || ''
getStackFrames(data) ==
    [k \in 1..Len(data.frames) |->
        [data.frames[k] EXCEPT !.file = IF sourcePath = Undefined THEN "" ELSE sourcePath]]

\* stackTraceRequest's frames
stackFrames(frames) ==
    [k \in 1..Len(frames) |->
        [id |-> frames[k].index, name |-> frames[k].name, source |-> frames[k].file,
         line |-> convertDebuggerLineToClient(frames[k].line)]]

\* the reply arrives.  On null, `data.frames` throws inside the subscriber: the
\* promise of getStackFrames is never settled and the request is never answered
stackTrace_got(c, o) ==
    /\ request(c, o)
    /\ reqs[c.req].kind = "stackTrace"
    /\ IF o.failed
       THEN /\ reqs' = [reqs EXCEPT ![c.req].nulls = @ + Nulls(o),
                                    ![c.req].pc = "hung"]
            /\ log' = log
            /\ faults' = faults + 1
       ELSE /\ reqs' = [reqs EXCEPT ![c.req].nulls = @ + Nulls(o),
                                    ![c.req].pc = "done"]
            /\ log' = Append(log, Response(c.req, "stackTrace",
                        [stackFrames |-> stackFrames(getStackFrames(o.data))]))
            /\ faults' = faults
    /\ calls' = calls \ {c}
    /\ immQ' = immQ \o handleError(c, o)
    /\ Unchanged_session

\* threadsRequest: the default thread, answered at once
threadsRequest ==
    /\ mode = "http" /\ CanDispatch
    /\ reqs' = Append(reqs, NewReq("threads", "done"))
    /\ log' = log \o <<ReqMsg(Len(reqs) + 1, "threads"),
                       Response(Len(reqs) + 1, "threads",
                           [threads |-> <<[id |-> threadID, name |-> "Thread 1"]>>])>>
    /\ UNCHANGED <<immQ, calls, faults>>
    /\ Unchanged_session /\ Unchanged_backend

\* a setVariableRequest that writes the variable to the backend
setVariableRequest_writes ==
    /\ mode = "http" /\ CanDispatch
    /\ reqs' = Append(reqs, NewReq("setVariable", "done"))
    /\ log' = log \o <<ReqMsg(Len(reqs) + 1, "setVariable"),
                       Response(Len(reqs) + 1, "setVariable", NoBody)>>
    /\ calls' = calls \cup {Call(Len(reqs) + 1, 0, "Variable/Set", 0)}
    /\ UNCHANGED <<immQ, faults>>
    /\ Unchanged_session /\ Unchanged_backend

\* setVariableRequest: the response is sent as it came, nothing else is done
setVariableRequest ==
    /\ mode = "http" /\ CanDispatch
    /\ reqs' = Append(reqs, NewReq("setVariable", "done"))
    /\ log' = log \o <<ReqMsg(Len(reqs) + 1, "setVariable"),
                       Response(Len(reqs) + 1, "setVariable", NoBody)>>
    /\ UNCHANGED <<immQ, calls, faults>>
    /\ Unchanged_session /\ Unchanged_backend

\* variablesRequest up to `await this.runtimeClient.getVariables()`
variablesRequest ==
    /\ mode = "http" /\ CanDispatch
    /\ Dispatch(NewReq("variables", "getting"))
    /\ calls' = calls \cup {Call(Len(reqs) + 1, 0, "Variable/Get", 0)}
    /\ UNCHANGED <<immQ, faults>>
    /\ Unchanged_session /\ Unchanged_backend

\* getVariables resolves with the reply or null; `variables?.map` accepts null
variables_got(c, o) ==
    /\ request(c, o)
    /\ reqs[c.req].kind = "variables"
    /\ reqs' = [reqs EXCEPT ![c.req].nulls = @ + Nulls(o),
                                    ![c.req].pc = "done"]
    /\ log' = Append(log, Response(c.req, "variables", [variables |-> o.data.vars]))
    /\ calls' = calls \ {c}
    /\ immQ' = immQ \o handleError(c, o)
    /\ UNCHANGED faults
    /\ Unchanged_session

\* nextRequest up to `await this.runtimeClient.step()`
nextRequest ==
    /\ mode = "http" /\ CanDispatch
    /\ Dispatch(NewReq("next", "stepping"))
    /\ calls' = calls \cup {Call(Len(reqs) + 1, 0, "Debug/Step", 0)}
    /\ UNCHANGED <<immQ, faults>>
    /\ Unchanged_session /\ Unchanged_backend

\* RuntimeClient.step's subscriber: `if (data.event) this.sendEvent(data?.event)`
stepEvents(i, data) == IF data.event # "" THEN <<NotifBy(data.event, i)>> ELSE <<>>

\* a step whose sendEvent emits at once instead of deferring with setImmediate
next_stepped_emitsAtOnce(c, o) ==
    /\ request(c, o)
    /\ reqs[c.req].kind = "next"
    /\ IF o.failed
       THEN /\ reqs' = [reqs EXCEPT ![c.req].nulls = @ + Nulls(o),
                                    ![c.req].pc = "hung"]
            /\ log' = log
            /\ faults' = faults + 1
            /\ immQ' = immQ \o handleError(c, o)
       ELSE /\ reqs' = [reqs EXCEPT ![c.req].nulls = @ + Nulls(o),
                                    ![c.req].pc = "done",
                                    ![c.req].raised = stepEvents(c.req, o.data)]
            /\ log' = (IF stepEvents(c.req, o.data) = <<>> THEN log
                       ELSE log \o setupEvents(stepEvents(c.req, o.data)[1]))
                      \o <<Response(c.req, "next", NoBody)>>
            /\ faults' = faults
            /\ immQ' = immQ
    /\ calls' = calls \ {c}
    /\ Unchanged_session

\* the Step reply arrives.  On null, `data.event` throws inside the subscriber: the
\* promise of step is never settled and the request is never answered
next_stepped(c, o) ==
    /\ request(c, o)
    /\ reqs[c.req].kind = "next"
    /\ IF o.failed
       THEN /\ reqs' = [reqs EXCEPT ![c.req].nulls = @ + Nulls(o),
                                    ![c.req].pc = "hung"]
            /\ log' = log
            /\ faults' = faults + 1
            /\ immQ' = immQ \o handleError(c, o)
       ELSE /\ reqs' = [reqs EXCEPT ![c.req].nulls = @ + Nulls(o),
                                    ![c.req].pc = "done",
                                    ![c.req].raised = stepEvents(c.req, o.data)]
            /\ log' = Append(log, Response(c.req, "next", NoBody))
            /\ faults' = faults
            /\ immQ' = immQ \o stepEvents(c.req, o.data)
    /\ calls' = calls \ {c}
    /\ Unchanged_session

\* continueRequest: RuntimeClient.continue returns a promise whose executor is
\* empty, so the await never ends
continueRequest ==
    /\ mode = "http" /\ CanDispatch
    /\ Dispatch(NewReq("continue", "awaitContinue"))
    /\ UNCHANGED <<immQ, calls, faults>>
    /\ Unchanged_session /\ Unchanged_backend

\* disconnectRequest: RuntimeClient.disconnect does nothing; the response is sent.
\* The client may send it whatever else is waiting
disconnectRequest ==
    /\ mode = "http" /\ Len(reqs) < MaxRequests
    /\ ~\E j \in Ids : reqs[j].kind = "disconnect"
    /\ reqs' = Append(reqs, NewReq("disconnect", "done"))
    /\ log' = log \o <<ReqMsg(Len(reqs) + 1, "disconnect"),
                       Response(Len(reqs) + 1, "disconnect", NoBody)>>
    /\ UNCHANGED <<immQ, calls, faults>>
    /\ Unchanged_session /\ Unchanged_backend

-----------------------------------------------------------------------------
(* MockDebugSession over the local mock RuntimeAdapter                     *)

Unchanged_local ==
    UNCHANGED <<mode, pipelined, clientLinesStartAt1, calls, bkBps, nfail, faults, streamVars>>

\* a printLine that prints the first line of the program, whatever the current one
printLine_firstLine(i, lines, path, line) ==
    [NotifBy("output", i) EXCEPT
        !.text = IF 1 \in DOMAIN lines THEN lines[1] ELSE Undefined,
        !.file = path, !.line = 0]

\* printLine: sendEvent('output', sourceLines[line], sourcePath, line, column)
printLine(i, lines, path, line) ==
    [NotifBy("output", i) EXCEPT
        !.text = IF line + 1 \in DOMAIN lines THEN lines[line + 1] ELSE Undefined,
        !.file = path, !.line = line]

\* a start that raises 'stopOnEntry' only when the launch asks for it
start_local_honoursFlag(i) ==
    /\ mode = "local" /\ i \in Ids
    /\ reqs[i].kind = "launch" /\ reqs[i].pc = "waitConfig"
    /\ sourcePath' = reqs[i].path
    /\ sourceText' = ReadFile(reqs[i].path)
    /\ sourceLines' = ReadFile(reqs[i].path)
    /\ UNCHANGED <<mockLine, stepLog>>
    /\ LET raised == IF reqs[i].stop
                     THEN <<NotifBy("stopOnEntry", i),
                            printLine(i, sourceLines', sourcePath', mockLine)>>
                     ELSE <<printLine(i, sourceLines', sourcePath', mockLine)>>
       IN /\ immQ' = immQ \o raised
          /\ reqs' = [reqs EXCEPT ![i].pc = "done", ![i].raised = raised]
    /\ log' = Append(log, Response(i, "launch", NoBody))
    /\ Unchanged_local

\* the wait ends; RuntimeAdapter.start reads and splits the file, raises
\* 'stopOnEntry', prints the current line and resolves; launchRequest answers
start_local(i) ==
    /\ mode = "local" /\ i \in Ids
    /\ reqs[i].kind = "launch" /\ reqs[i].pc = "waitConfig"
    /\ sourcePath' = reqs[i].path
    /\ sourceText' = ReadFile(reqs[i].path)
    /\ sourceLines' = ReadFile(reqs[i].path)
    /\ UNCHANGED <<mockLine, stepLog>>
    /\ LET raised == <<NotifBy("stopOnEntry", i),
                       printLine(i, sourceLines', sourcePath', mockLine)>>
       IN /\ immQ' = immQ \o raised
          /\ reqs' = [reqs EXCEPT ![i].pc = "done", ![i].raised = raised]
    /\ log' = Append(log, Response(i, "launch", NoBody))
    /\ Unchanged_local

\* a call of step by request i that has resolved: what it raised and its result
StepCall(i, raised, ended) == [by |-> i, raised |-> raised, ended |-> ended]

\* `this.__mockLine < (this.sourceLines?.length || 0) - 1`
canStep(line, lines) == line < Len(lines) - 1

\* a step that raises 'end' along with every 'stopOnStep'
step_local_endToo(i, line, lines, path) ==
    IF canStep(line, lines)
    THEN [line |-> line + 1, ended |-> FALSE,
          raised |-> <<NotifBy("stopOnStep", i), NotifBy("end", i)>>]
    ELSE [line |-> line, ended |-> TRUE, raised |-> <<NotifBy("end", i)>>]

\* RuntimeAdapter.step called by request i at line `line`: the new line, the
\* notifications it raises and the flag it resolves with
step_local(i, line, lines, path) ==
    IF canStep(line, lines)
    THEN [line |-> line + 1, ended |-> FALSE,
          raised |-> <<NotifBy("stopOnStep", i), printLine(i, lines, path, line + 1)>>]
    ELSE [line |-> line, ended |-> TRUE, raised |-> <<NotifBy("end", i)>>]

\* nextRequest: one step, then the response
nextRequest_local ==
    /\ mode = "local" /\ CanDispatch
    /\ LET i == Len(reqs) + 1
           st == step_local(i, mockLine, sourceLines, sourcePath)
       IN /\ mockLine' = st.line
          /\ stepLog' = Append(stepLog, StepCall(i, st.raised, st.ended))
          /\ immQ' = immQ \o st.raised
          /\ reqs' = Append(reqs, [NewReq("next", "done") EXCEPT
                        !.raised = st.raised, !.steps = 1, !.ended = st.ended])
          /\ log' = log \o <<ReqMsg(i, "next"), Response(i, "next", NoBody)>>
    /\ UNCHANGED <<sourcePath, sourceText, sourceLines>>
    /\ Unchanged_local

\* RuntimeAdapter.getStackFrames of the local mock: one frame, at the current line
getStackFrames_local ==
    <<[index |-> 0, name |-> <<"Line ", mockLine>>,
       file |-> IF sourcePath = Undefined THEN "" ELSE sourcePath,
       line |-> mockLine]>>

\* stackTraceRequest: getStackFrames resolves at once, the response is sent
stackTraceRequest_local ==
    /\ mode = "local" /\ CanDispatch
    /\ reqs' = Append(reqs, NewReq("stackTrace", "done"))
    /\ log' = log \o <<ReqMsg(Len(reqs) + 1, "stackTrace"),
                       Response(Len(reqs) + 1, "stackTrace",
                           [stackFrames |-> stackFrames(getStackFrames_local)])>>
    /\ UNCHANGED <<immQ, sourcePath, sourceText, localVars>>
    /\ Unchanged_local

\* continueRequest: RuntimeAdapter.continue enters `while (true)`
continueRequest_local ==
    /\ mode = "local" /\ CanDispatch
    /\ Dispatch([NewReq("continue", "looping") EXCEPT !.from = mockLine,
                                                       !.prog = sourceLines])
    /\ UNCHANGED <<immQ, sourcePath, sourceText, localVars>>
    /\ Unchanged_local

\* a loop that breaks after its first step
continueBreaks_atOnce(end) == TRUE

\* `if (end) break`
continueBreaks(end) == end

\* one iteration of the loop of continue: `const end = await this.step()`; when
\* the loop breaks, continue resolves and continueRequest answers
continue_local(i) ==
    /\ mode = "local" /\ i \in Ids
    /\ reqs[i].kind = "continue" /\ reqs[i].pc = "looping"
    /\ LET st == step_local(i, mockLine, sourceLines, sourcePath)
       IN /\ mockLine' = st.line
          /\ stepLog' = Append(stepLog, StepCall(i, st.raised, st.ended))
          /\ immQ' = immQ \o st.raised
          /\ reqs' = [reqs EXCEPT ![i].steps = @ + 1, ![i].ended = st.ended,
                                  ![i].raised = @ \o st.raised,
                                  ![i].pc = IF continueBreaks(st.ended)
                                            THEN "done" ELSE "looping"]
          /\ log' = IF continueBreaks(st.ended)
                    THEN Append(log, Response(i, "continue", NoBody)) ELSE log
    /\ UNCHANGED <<sourcePath, sourceText, sourceLines>>
    /\ Unchanged_local

-----------------------------------------------------------------------------
(* MockDebugSession over the socket RuntimeAdapter                         *)

Unchanged_stream ==
    UNCHANGED <<mode, pipelined, clientLinesStartAt1, calls, nfail, mockLine, framingVars>>

NoGuid == 0

\* a command written to the socket
Cmd(debugCommand, guid, line) ==
    [debugCommand |-> debugCommand, guid |-> guid, line |-> line]

\* a message object parsed from the socket's data
Msg(debugCommand, guid) ==
    [debugCommand |-> debugCommand, guid |-> guid, verified |-> FALSE, line |-> 0,
     id |-> 0, frames |-> <<>>]

\* the result of a setBreakPoint that has not resolved
NoReply == Msg("", NoGuid)

\* a subscriber of dataSubject, made by request i
Sub(i, slot, kind, guid, seq) ==
    [req |-> i, slot |-> slot, kind |-> kind, guid |-> guid, seq |-> seq]

InsertAt(q, k, x) == SubSeq(q, 1, k) \o <<x>> \o SubSeq(q, k + 1, Len(q))

\* what the adapter's promise continuations change
Bundle ==
    [reqs |-> reqs, log |-> log, immQ |-> immQ, out |-> toBackend, subs |-> subs,
     fresh |-> fresh, stepLog |-> stepLog, faults |-> faults]

Commit(b) ==
    /\ reqs' = b.reqs /\ log' = b.log /\ immQ' = b.immQ /\ toBackend' = b.out
    /\ subs' = b.subs /\ fresh' = b.fresh /\ stepLog' = b.stepLog
    /\ faults' = b.faults

\* the socket has been ended by `client.end()` or closed by the backend
Ended(sock) == sock \in {"connectingEnded", "ended", "closed"}

\* `client.write(cmd)` on socket state sock: nothing without a socket
\* (`this.client?.`), an 'error' event nobody listens to after end(), and the
\* command on its way to the backend otherwise
write(b, cmd, sock) ==
    CASE sock = "none" -> b
      [] Ended(sock) -> [b EXCEPT !.faults = @ + 1]
      [] OTHER -> [b EXCEPT !.out = Append(@, cmd)]

\* start, once there is a socket: write the start command with a fresh guid and
\* subscribe to dataSubject
start_write(b, i, sock) ==
    [write(b, Cmd(IF b.reqs[i].stop THEN "startStopEntry" ELSE "start", b.fresh, 0),
           sock)
       EXCEPT !.subs = @ \cup {Sub(i, 0, "start", b.fresh, b.fresh)},
              !.fresh = @ + 1,
              !.reqs[i].pc = "starting",
              !.reqs[i].got = <<NoReply>>,
              !.reqs[i].guids = <<b.fresh>>]

\* step: `this.client?.write(...)` and a subscriber without a guid
step_stream(b, i, sock) ==
    [write(b, Cmd("step", NoGuid, 0), sock)
       EXCEPT !.subs = @ \cup {Sub(i, 0, "step", NoGuid, b.fresh)},
              !.fresh = @ + 1]

\* setBreakPoint for every requested line, each with its own guid
RECURSIVE setBreakPoint_stream(_, _, _, _)
setBreakPoint_stream(b, i, k, sock) ==
    IF k > Len(b.reqs[i].lines) THEN b
    ELSE setBreakPoint_stream(
            [write(b, Cmd("setBreakpoint", b.fresh,
                          convertClientLineToDebugger(b.reqs[i].lines[k])), sock)
               EXCEPT !.subs = @ \cup {Sub(i, k, "set", b.fresh, b.fresh)},
                      !.fresh = @ + 1,
                      !.reqs[i].guids = Append(@, b.fresh)],
            i, k + 1, sock)

\* clearBreakpoints, once there is a socket: write the command and resolve; then
\* setBreakPointsRequest maps the lines, or answers at once when there is none
clearBreakpoints_stream(b, i, sock) ==
    LET b1 == write(b, Cmd("clearBreakpoints", NoGuid, 0), sock)
        n == Len(b.reqs[i].lines)
    IN IF n = 0
       THEN [b1 EXCEPT !.reqs[i].pc = "done",
                       !.log = Append(@, Response(i, "setBreakpoints",
                                                  [breakpoints |-> <<>>]))]
       ELSE setBreakPoint_stream(
                [b1 EXCEPT !.reqs[i].pc = "setting",
                           !.reqs[i].got = [k \in 1..n |-> NoReply]],
                i, 1, sock)

\* the wait of launchRequest ends; start reads the file, and starts the client
\* when there is none
start_stream(i) ==
    /\ mode = "stream" /\ i \in Ids
    /\ reqs[i].kind = "launch" /\ reqs[i].pc = "waitConfig"
    /\ sourcePath' = reqs[i].path
    /\ sourceText' = ReadFile(reqs[i].path)
    /\ sourceLines' = ReadFile(reqs[i].path)
    /\ IF client = "none"
       THEN /\ client' = "connecting"
            /\ Commit([Bundle EXCEPT !.reqs[i].pc = "connecting"])
       ELSE /\ client' = client
            /\ Commit(start_write(Bundle, i, client))
    /\ UNCHANGED <<sockIn, bkBps, bkRemain>>
    /\ Unchanged_stream

\* startClient's connect callback: listeners are added and clientSubject hands
\* the socket to the one call that waits for it
connect ==
    /\ mode = "stream" /\ client \in {"connecting", "connectingEnded"}
    /\ client' = IF client = "connecting" THEN "open" ELSE "ended"
    /\ LET i == CHOOSE j \in Ids : reqs[j].pc = "connecting"
       IN Commit(IF reqs[i].kind = "launch"
                 THEN start_write(Bundle, i, client)
                 ELSE clearBreakpoints_stream(Bundle, i, client))
    /\ UNCHANGED <<sockIn, bkBps, bkRemain, sourcePath, sourceText, sourceLines>>
    /\ Unchanged_stream

setBreakPointsRequest_stream(lines) ==
    /\ mode = "stream" /\ CanDispatch
    /\ LET i == Len(reqs) + 1
           b == [Bundle EXCEPT
                    !.reqs = Append(@, [NewReq("setBreakpoints", "connecting")
                                            EXCEPT !.lines = lines]),
                    !.log = Append(@, ReqMsg(i, "setBreakpoints"))]
       IN IF client = "none"
          THEN client' = "connecting" /\ Commit(b)
          ELSE client' = client /\ Commit(clearBreakpoints_stream(b, i, client))
    /\ UNCHANGED <<sockIn, bkBps, bkRemain, sourcePath, sourceText, sourceLines>>
    /\ Unchanged_stream

\* stackTraceRequest: getStackFrames writes its command with a fresh guid
stackTraceRequest_stream ==
    /\ mode = "stream" /\ CanDispatch
    /\ LET i == Len(reqs) + 1
       IN Commit([Bundle EXCEPT
            !.reqs = Append(@, [NewReq("stackTrace", "getting")
                                    EXCEPT !.got = <<NoReply>>, !.guids = <<fresh>>]),
            !.log = Append(@, ReqMsg(i, "stackTrace")),
            !.out = write(Bundle, Cmd("getStackFrames", fresh, 0), client).out,
            !.faults = write(Bundle, Cmd("getStackFrames", fresh, 0), client).faults,
            !.subs = @ \cup {Sub(i, 0, "frames", fresh, fresh)},
            !.fresh = @ + 1])
    /\ UNCHANGED <<client, sockIn, bkBps, bkRemain, sourcePath, sourceText, sourceLines>>
    /\ Unchanged_stream

nextRequest_stream ==
    /\ mode = "stream" /\ CanDispatch
    /\ LET i == Len(reqs) + 1
       IN Commit(step_stream(
            [Bundle EXCEPT !.reqs = Append(@, [NewReq("next", "stepping")
                                                    EXCEPT !.steps = 1]),
                           !.log = Append(@, ReqMsg(i, "next"))],
            i, client))
    /\ UNCHANGED <<client, sockIn, bkBps, bkRemain, sourcePath, sourceText, sourceLines>>
    /\ Unchanged_stream

\* continueRequest: continue enters `while (true)` and makes its first step
continueRequest_stream ==
    /\ mode = "stream" /\ CanDispatch
    /\ LET i == Len(reqs) + 1
       IN Commit(step_stream(
            [Bundle EXCEPT !.reqs = Append(@, [NewReq("continue", "looping")
                                                EXCEPT !.steps = 1, !.from = bkRemain,
                                                       !.solo = (/\ subs = {} /\ client = "open"
                                                                 /\ toBackend = <<>>
                                                                 /\ sockIn = <<>>)]),
                           !.log = Append(@, ReqMsg(i, "continue"))],
            i, client))
    /\ UNCHANGED <<client, sockIn, bkBps, bkRemain, sourcePath, sourceText, sourceLines>>
    /\ Unchanged_stream

\* a filter that takes any reply that carries a guid
matches_anyGuid(s, m) ==
    IF s.kind = "step"
    THEN m.debugCommand \in {"stopOnStep", "end"}
    ELSE m.guid # NoGuid

\* the filter of a dataSubject subscriber: `data.guid === guid`, and for step
\* `data.debugCommand === 'stopOnStep' || data.debugCommand === 'end'`
matches(s, m) ==
    IF s.kind = "step"
    THEN m.debugCommand \in {"stopOnStep", "end"}
    ELSE m.guid = s.guid

\* the notifications subscriber s raises for message m
raisedBy(s, m) ==
    CASE s.kind = "start" /\ m.debugCommand = "stopOnEntry" ->
            <<NotifBy("stopOnEntry", s.req)>>
      [] s.kind = "step" -> <<NotifBy(m.debugCommand, s.req)>>
      [] OTHER -> <<>>

\* getStackFrames: (data.frames || []).map(item => ({ ...item, file: sourcePath || '' }))
getStackFrames_stream(data) ==
    [k \in 1..Len(data.frames) |->
        [data.frames[k] EXCEPT !.file = IF sourcePath = Undefined THEN "" ELSE sourcePath]]

\* the continuation of the promise subscriber s resolved with message m
resolved(b, s, m) ==
    LET i == s.req
        kind == b.reqs[i].kind
        end == m.debugCommand = "end"
    IN CASE s.kind = "start" ->
              [b EXCEPT !.reqs[i].pc = "done", !.reqs[i].raised = raisedBy(s, m),
                        !.reqs[i].got = <<m>>,
                        !.log = Append(@, Response(i, "launch", NoBody))]
         [] s.kind = "set" ->
              LET data == [b.reqs[i].got EXCEPT ![s.slot] = m]
              IN IF \A k \in 1..Len(data) : data[k] # NoReply
                 THEN [b EXCEPT !.reqs[i].got = data, !.reqs[i].pc = "done",
                                !.reqs[i].order = Append(@, s.slot),
                                !.log = Append(@, Response(i, "setBreakpoints",
                                            [breakpoints |-> trueBreakpoints(data)]))]
                 ELSE [b EXCEPT !.reqs[i].got = data,
                                !.reqs[i].order = Append(@, s.slot)]
         [] s.kind = "frames" ->
              [b EXCEPT !.reqs[i].pc = "done", !.reqs[i].got = <<m>>,
                        !.log = Append(@, Response(i, "stackTrace",
                            [stackFrames |-> stackFrames(getStackFrames_stream(m))]))]
         [] s.kind = "step" /\ kind = "next" ->
              [b EXCEPT !.reqs[i].pc = "done", !.reqs[i].ended = end,
                        !.reqs[i].raised = raisedBy(s, m),
                        !.stepLog = Append(@, StepCall(i, raisedBy(s, m), end)),
                        !.log = Append(@, Response(i, "next", NoBody))]
         [] s.kind = "step" /\ kind = "continue" ->
              LET b1 == [b EXCEPT !.reqs[i].ended = end,
                                  !.reqs[i].raised = @ \o raisedBy(s, m),
                                  !.stepLog = Append(@, StepCall(i, raisedBy(s, m), end))]
              IN IF continueBreaks(end)
                 THEN [b1 EXCEPT !.reqs[i].pc = "done",
                                 !.log = Append(@, Response(i, "continue", NoBody))]
                 ELSE step_stream([b1 EXCEPT !.reqs[i].steps = @ + 1], i, client)

First(S) == CHOOSE s \in S : \A t \in S : s.seq <= t.seq

\* dataSubject.next(m): the subscribers run in the order they subscribed
RECURSIVE raisedAll(_, _)
raisedAll(S, m) ==
    IF S = {} THEN <<>>
    ELSE raisedBy(First(S), m) \o raisedAll(S \ {First(S)}, m)

\* the continuations of the resolved promises then run in the same order
RECURSIVE resolveAll(_, _, _)
resolveAll(b, S, m) ==
    IF S = {} THEN b
    ELSE resolveAll(resolved(b, First(S), m), S \ {First(S)}, m)

\* the socket's 'data' listener, for a chunk that holds one message
data ==
    /\ mode = "stream" /\ client \in {"open", "ended"} /\ sockIn # <<>>
    /\ LET m == Head(sockIn)
           hit == {s \in subs : matches(s, m)}
       IN Commit(resolveAll([Bundle EXCEPT !.immQ = @ \o raisedAll(hit, m),
                                           !.subs = @ \ hit],
                            hit, m))
    /\ sockIn' = Tail(sockIn)
    /\ UNCHANGED <<client, bkBps, bkRemain, sourcePath, sourceText, sourceLines>>
    /\ Unchanged_stream

\* disconnectRequest over the socket adapter: disconnect() ends the socket when
\* there is one, and the response is sent; it is handled whatever else is waiting
disconnectRequest_stream ==
    /\ mode = "stream" /\ Len(reqs) < MaxRequests
    /\ ~\E j \in Ids : reqs[j].kind = "disconnect"
    /\ client' = CASE client = "open" -> "ended"
                    [] client = "connecting" -> "connectingEnded"
                    [] OTHER -> client
    /\ Commit([Bundle EXCEPT
            !.reqs = Append(@, NewReq("disconnect", "done")),
            !.log = @ \o <<ReqMsg(Len(reqs) + 1, "disconnect"),
                           Response(Len(reqs) + 1, "disconnect", NoBody)>>])
    /\ UNCHANGED <<sockIn, bkBps, bkRemain, sourcePath, sourceText, sourceLines>>
    /\ Unchanged_stream

\* the socket's 'end' listener, once the backend has closed its side and all it
\* wrote has been read: sendEvent('end')
end ==
    /\ mode = "stream" /\ client \in {"open", "ended"} /\ sockIn = <<>>
    /\ client' = "closed"
    /\ toBackend' = <<>>
    /\ immQ' = Append(immQ, NotifBy("end", 0))
    /\ UNCHANGED <<reqs, log, subs, fresh, stepLog, faults, sockIn, bkBps, bkRemain,
                   sourcePath, sourceText, sourceLines>>
    /\ Unchanged_stream

-----------------------------------------------------------------------------
(* The execution backend behind the socket (the environment)               *)

\* the backend's step with `remain` steps left: its reply and the steps left after
BackendStep(remain) ==
    IF remain > 0
    THEN [debugCommand |-> "stopOnStep", remain |-> remain - 1]
    ELSE [debugCommand |-> "end", remain |-> 0]

\* the messages the backend writes when it handles command c
StreamReplies(c) ==
    CASE c.debugCommand = "startStopEntry" -> <<Msg("stopOnEntry", c.guid)>>
      [] c.debugCommand = "start" -> <<Msg("started", c.guid)>>
      [] c.debugCommand = "setBreakpoint" ->
            <<[Msg("setBreakpoint", c.guid) EXCEPT
                !.verified = (c.line \in 0..(BkLines - 1)),
                !.line = c.line, !.id = c.line + 10]>>
      [] c.debugCommand = "getStackFrames" ->
            <<[Msg("getStackFrames", c.guid) EXCEPT !.frames =
                <<[index |-> 0, name |-> "main", file |-> "backend", line |-> 0]>>]>>
      [] c.debugCommand = "step" ->
            <<Msg(BackendStep(bkRemain).debugCommand, NoGuid)>>
      [] OTHER -> <<>>

\* the backend reads the oldest command and handles it; its reply may overtake
\* replies that the adapter has not read yet.  The program it starts is the
\* launched file: one step per line after the first
BackendStream(p) ==
    /\ mode = "stream" /\ client \in {"open", "ended"} /\ toBackend # <<>>
    /\ p \in 0..Len(sockIn)
    /\ LET c == Head(toBackend)
           r == StreamReplies(c)
       IN /\ sockIn' = IF r = <<>> THEN sockIn ELSE InsertAt(sockIn, p, r[1])
          /\ r = <<>> => p = 0
          /\ bkBps' = CASE c.debugCommand = "setBreakpoint" -> bkBps \cup {c.line}
                        [] c.debugCommand = "clearBreakpoints" -> {}
                        [] OTHER -> bkBps
          /\ bkRemain' = CASE c.debugCommand \in {"start", "startStopEntry"} ->
                                Len(sourceLines) - 1
                           [] c.debugCommand = "step" -> BackendStep(bkRemain).remain
                           [] OTHER -> bkRemain
    /\ toBackend' = Tail(toBackend)
    /\ UNCHANGED <<reqs, log, immQ, subs, fresh, stepLog, faults, client,
                   sourcePath, sourceText, sourceLines>>
    /\ Unchanged_stream

-----------------------------------------------------------------------------
(* The bodies of the HTTP requests                                         *)

\* an object is the sequence of its properties in insertion order; a key is the
\* sequence of its characters
Prop(key, val) == [key |-> key, val |-> val]

\* the body RuntimeClient passes to request() for call c, or <<>> when it passes none
payload(c) ==
    CASE c.ep = "Debug/Load" ->
            <<Prop(<<"f", "i", "l", "e">>, <<"string", Len(sourceText)>>)>>
      [] c.ep = "Debug/Start" ->
            <<Prop(<<"s", "t", "o", "p", "O", "n", "E", "n", "t", "r", "y">>,
                   <<"boolean", c.arg>>)>>
      [] c.ep = "Breakpoint/Set" ->
            <<Prop(<<"l", "i", "n", "e">>, <<"number", c.arg>>)>>
      [] OTHER -> <<>>

LowerCase == <<"a", "b", "c", "d", "e", "f", "g", "h", "i", "j", "k", "l", "m",
               "n", "o", "p", "q", "r", "s", "t", "u", "v", "w", "x", "y", "z">>
UpperCase == <<"A", "B", "C", "D", "E", "F", "G", "H", "I", "J", "K", "L", "M",
               "N", "O", "P", "Q", "R", "S", "T", "U", "V", "W", "X", "Y", "Z">>

\* String.prototype.toUpperCase of one character
toUpperCase(ch) ==
    IF \E k \in DOMAIN LowerCase : LowerCase[k] = ch
    THEN UpperCase[CHOOSE k \in DOMAIN LowerCase : LowerCase[k] = ch]
    ELSE ch

\* `${key[0].toUpperCase()}${key.substring(1)}`
fkey(key) == <<toUpperCase(key[1])>> \o Tail(key)

\* result[key] = val: the property is replaced where it is, or added at the end
Assign(result, key, val) ==
    IF \E k \in DOMAIN result : result[k].key = key
    THEN [k \in DOMAIN result |->
            IF result[k].key = key THEN Prop(key, val) ELSE result[k]]
    ELSE Append(result, Prop(key, val))

\* the loop of formatKeysAPI over Object.keys(value), from the k-th key on
RECURSIVE formatKeysAPI_loop(_, _, _)
formatKeysAPI_loop(value, k, result) ==
    IF k > Len(value) THEN result
    ELSE formatKeysAPI_loop(value, k + 1,
            Assign(result, fkey(value[k].key), value[k].val))

\* a formatKeysAPI that hands the body on as it is
formatKeysAPI_asIs(value) == value

formatKeysAPI(value) == formatKeysAPI_loop(value, 1, <<>>)

\* what fetch sends as the body of call c: JSON of formatKeysAPI(body), or nothing
body(c) == IF payload(c) # <<>> THEN formatKeysAPI(payload(c)) ELSE <<>>

-----------------------------------------------------------------------------
(* The framing of the socket's inbound data                                *)

\* a message object: its debugCommand, and those of the objects nested in it
Objects == {<<"stopOnStep">>, <<"end">>, <<"getStackFrames", "frame">>}

\* JSON.stringify of an object, as characters: braces, and one character for
\* everything between two braces
RECURSIVE stringify(_)
stringify(o) ==
    IF Len(o) = 1 THEN <<"{", o[1], "}">>
    ELSE <<"{", o[1]>> \o stringify(Tail(o)) \o <<"}">>

\* the loop of getJsonArray from index i on
RECURSIVE getJsonArray_loop(_, _, _, _, _, _)
getJsonArray_loop(jsons, i, bracketValue, insideJson, currentStart, list) ==
    IF i > Len(jsons) THEN list
    ELSE LET v == bracketValue + (CASE jsons[i] = "{" -> 1
                                    [] jsons[i] = "}" -> -1
                                    [] OTHER -> 0)
             opens == v > 0 /\ ~insideJson
             from == IF opens THEN i ELSE currentStart
             closes == v = 0 /\ (insideJson \/ opens)
         IN getJsonArray_loop(jsons, i + 1, v, (insideJson \/ opens) /\ ~closes, from,
                IF closes THEN Append(list, SubSeq(jsons, from, i)) ELSE list)

\* list.join(',')
RECURSIVE join(_)
join(list) ==
    CASE list = <<>> -> <<>>
      [] Len(list) = 1 -> list[1]
      [] OTHER -> list[1] \o <<",">> \o join(Tail(list))

\* a getJsonArray that keeps the first piece only
getJsonArray_firstOnly(buffer) ==
    LET list == getJsonArray_loop(buffer, 1, 0, FALSE, 0, <<>>)
    IN IF Len(list) > 0 THEN <<"[">> \o list[1] \o <<"]">> ELSE Undefined

\* getJsonArray(buffer): `[...]` around the joined pieces, or undefined
getJsonArray(buffer) ==
    LET list == getJsonArray_loop(buffer, 1, 0, FALSE, 0, <<>>)
    IN IF Len(list) > 0 THEN <<"[">> \o join(list) \o <<"]">> ELSE Undefined

\* JSON.parse of the characters of one object
RECURSIVE parseObject(_)
parseObject(str) ==
    IF str[3] = "}" THEN <<str[2]>>
    ELSE <<str[2]>> \o parseObject(SubSeq(str, 3, Len(str) - 1))

\* the index at which the object that begins at the head of str ends
RECURSIVE objectEnd(_, _, _)
objectEnd(str, i, depth) ==
    LET d == depth + (CASE str[i] = "{" -> 1 [] str[i] = "}" -> -1 [] OTHER -> 0)
    IN IF d = 0 THEN i ELSE objectEnd(str, i + 1, d)

\* JSON.parse of the elements of an array, separated by commas
RECURSIVE parseElements(_)
parseElements(str) ==
    IF str = <<>> THEN <<>>
    ELSE LET e == objectEnd(str, 1, 0)
         IN <<parseObject(SubSeq(str, 1, e))>> \o
            parseElements(SubSeq(str, e + 2, Len(str)))

\* JSON.parse(array)
parse(array) == parseElements(SubSeq(array, 2, Len(array) - 1))

\* the backend writes a message to the socket
backendWrite(o) ==
    /\ mode = "stream" /\ client = "open" /\ Len(wrote) < MaxMessages
    /\ wire' = wire \o stringify(o)
    /\ wrote' = Append(wrote, stringify(o))
    /\ UNCHANGED <<reqs, log, immQ, subs, fresh, stepLog, faults, toBackend, sockIn,
                   client, bkBps, bkRemain, sourcePath, sourceText, sourceLines,
                   dataSubject, mode, pipelined, clientLinesStartAt1, calls, nfail,
                   mockLine>>

\* the backend writes a line break after the message it wrote last
backendSeparates ==
    /\ mode = "stream" /\ client = "open"
    /\ wire # <<>> /\ wire[Len(wire)] = "}"
    /\ wire' = Append(wire, "\n")
    /\ UNCHANGED <<reqs, log, immQ, subs, fresh, stepLog, faults, toBackend, sockIn,
                   client, bkBps, bkRemain, sourcePath, sourceText, sourceLines,
                   wrote, dataSubject, mode, pipelined, clientLinesStartAt1, calls,
                   nfail, mockLine>>

\* the socket's 'data' listener, for a chunk of the n oldest characters: every
\* object of getJsonArray's array goes to dataSubject.next
data_chunk(n) ==
    /\ mode = "stream" /\ client = "open" /\ n \in 1..Len(wire)
    /\ LET array == getJsonArray(SubSeq(wire, 1, n))
       IN dataSubject' = IF array # Undefined THEN dataSubject \o parse(array)
                         ELSE dataSubject
    /\ wire' = SubSeq(wire, n + 1, Len(wire))
    /\ UNCHANGED <<reqs, log, immQ, subs, fresh, stepLog, faults, toBackend, sockIn,
                   client, bkBps, bkRemain, sourcePath, sourceText, sourceLines,
                   wrote, mode, pipelined, clientLinesStartAt1, calls, nfail,
                   mockLine>>

-----------------------------------------------------------------------------
(* sendEvent's setImmediate callback: emit the notification to the session *)

\* the details a 'stopOnException' notification may carry
Details == {Undefined, Str(""), Str("Err")}

\* the notifications the listeners of setupEvents turn into stopped or
\* terminated events
Notifications ==
    {"stopOnEntry", "stopOnStep", "stopOnBreakpoint", "stopOnException", "end"}

\* sendEvent(event, ...args): the emit is deferred with setImmediate
sendEvent(event, arg) ==
    /\ mode = "http" /\ Len(log) + Len(immQ) < MaxEmits
    /\ event # "stopOnException" => arg = Undefined
    /\ immQ' = Append(immQ, [NotifBy(event, 0) EXCEPT !.arg = arg])
    /\ UNCHANGED <<reqs, log, calls, faults>>
    /\ Unchanged_session /\ Unchanged_backend

\* an event loop that runs the newest deferred callback first
RunImmediate_newestFirst ==
    /\ immQ # <<>>
    /\ ~(mode = "local" /\ \E i \in Ids : reqs[i].pc = "looping")
    /\ log' = log \o setupEvents(immQ[Len(immQ)])
    /\ immQ' = SubSeq(immQ, 1, Len(immQ) - 1)
    /\ faults' = IF setupEvents_throws(immQ[Len(immQ)]) THEN faults + 1 ELSE faults
    /\ UNCHANGED <<reqs, calls>>
    /\ Unchanged_session /\ Unchanged_backend

RunImmediate ==
    /\ immQ # <<>>
    /\ ~(mode = "local" /\ \E i \in Ids : reqs[i].pc = "looping")
    /\ log' = log \o setupEvents(Head(immQ))
    /\ immQ' = Tail(immQ)
    /\ faults' = IF setupEvents_throws(Head(immQ)) THEN faults + 1 ELSE faults
    /\ UNCHANGED <<reqs, calls>>
    /\ Unchanged_session /\ Unchanged_backend

-----------------------------------------------------------------------------

Init ==
    /\ clientLinesStartAt1 \in BOOLEAN
    /\ reqs = <<>>
    /\ log = <<>>
    /\ immQ = <<>>
    /\ calls = {}
    /\ bkBps = {}
    /\ sourcePath = Undefined
    /\ sourceText = NoText
    /\ faults = 0
    /\ nfail = 0
    /\ mockLine = 0
    /\ sourceLines = NoText
    /\ stepLog = <<>>
    /\ client = "none"
    /\ subs = {}
    /\ toBackend = <<>>
    /\ sockIn = <<>>
    /\ fresh = 1
    /\ bkRemain = 0
    /\ wire = <<>>
    /\ wrote = <<>>
    /\ dataSubject = <<>>

\* a session of DebugSession over the HTTP RuntimeClient
InitHttp == mode = "http" /\ pipelined = FALSE /\ Init

\* a session of MockDebugSession over the local mock or the socket RuntimeAdapter
InitMock == mode \in {"local", "stream"} /\ pipelined = FALSE /\ Init

\* a session over the socket adapter whose client does not await the answers
InitStream == mode = "stream" /\ pipelined = TRUE /\ Init /\ clientLinesStartAt1

\* launching, stepping and disconnecting over HTTP
NextRun ==
    \/ \E a \in LaunchArgs : launchRequest(a[1], a[2])
    \/ configurationDoneRequest
    \/ \E i \in Ids : start(i)
    \/ \E c \in calls : \E o \in Outcomes(c) : start_subscribe(c, o)
    \/ nextRequest
    \/ \E c \in calls : \E o \in Outcomes(c) : next_stepped(c, o)
    \/ continueRequest
    \/ disconnectRequest
    \/ RunImmediate

\* breakpoints and inspection over HTTP
NextBreakpoints ==
    \/ \E ls \in LineLists : setBreakPointsRequest(ls)
    \/ \E c \in calls : \E o \in Outcomes(c) : setBreakPoints_cleared(c, o)
    \/ \E c \in calls : \E o \in Outcomes(c) : setBreakPoints_set(c, o)
    \/ breakpointLocationsRequest
    \/ \E c \in calls : \E o \in Outcomes(c) : breakpointLocations_got(c, o)
    \/ stackTraceRequest
    \/ \E c \in calls : \E o \in Outcomes(c) : stackTrace_got(c, o)
    \/ variablesRequest
    \/ \E c \in calls : \E o \in Outcomes(c) : variables_got(c, o)
    \/ setVariableRequest
    \/ RunImmediate

\* the local mock and the socket adapter
NextMock ==
    \/ \E a \in LaunchArgs : launchRequest(a[1], a[2])
    \/ \E i \in Ids : start_local(i)
    \/ nextRequest_local
    \/ continueRequest_local
    \/ \E i \in Ids : continue_local(i)
    \/ \E i \in Ids : start_stream(i)
    \/ connect
    \/ nextRequest_stream
    \/ continueRequest_stream
    \/ disconnectRequest_stream
    \/ \E p \in 0..Len(sockIn) : BackendStream(p)
    \/ data
    \/ end
    \/ RunImmediate

\* breakpoints, inspection and launch over the socket adapter, pipelined
NextStream ==
    \/ \E a \in StreamLaunchArgs : launchRequest(a[1], a[2])
    \/ \E i \in Ids : start_stream(i)
    \/ connect
    \/ \E ls \in StreamLineLists : setBreakPointsRequest_stream(ls)
    \/ stackTraceRequest_stream
    \/ \E p \in 0..Len(sockIn) : BackendStream(p)
    \/ data
    \/ RunImmediate

SpecRun == InitHttp /\ [][NextRun]_vars
SpecBreakpoints == InitHttp /\ [][NextBreakpoints]_vars
SpecMock == InitMock /\ [][NextMock]_vars
SpecStream == InitStream /\ [][NextStream]_vars

\* the socket adapter once startClient's connect callback has run, and the
\* framing of what the backend writes
InitFraming ==
    /\ mode = "stream" /\ pipelined = FALSE /\ clientLinesStartAt1 = TRUE
    /\ reqs = <<>> /\ log = <<>> /\ immQ = <<>> /\ calls = {} /\ bkBps = {}
    /\ sourcePath = Undefined /\ sourceText = NoText /\ faults = 0 /\ nfail = 0
    /\ mockLine = 0 /\ sourceLines = NoText /\ stepLog = <<>>
    /\ client = "open" /\ subs = {} /\ toBackend = <<>> /\ sockIn = <<>>
    /\ fresh = 1 /\ bkRemain = 0
    /\ wire = <<>> /\ wrote = <<>> /\ dataSubject = <<>>
NextFraming ==
    \/ \E o \in Objects : backendWrite(o)
    \/ backendSeparates
    \/ \E n \in 1..Len(wire) : data_chunk(n)
SpecFraming == InitFraming /\ [][NextFraming]_vars

\* the notifications of the runtime client, the listeners of setupEvents and the
\* threads requests of the client
NextEvents ==
    \/ \E event \in Notifications : \E arg \in Details : sendEvent(event, arg)
    \/ threadsRequest
    \/ RunImmediate
SpecEvents == InitHttp /\ [][NextEvents]_vars

\* setBreakpoints requests over HTTP from a client that does not await the
\* answers: the handlers of two requests overlap
InitOverlap == mode = "http" /\ pipelined = TRUE /\ Init
NextOverlap ==
    \/ \E ls \in LineLists : setBreakPointsRequest(ls)
    \/ \E c \in calls : \E o \in Outcomes(c) : setBreakPoints_cleared(c, o)
    \/ \E c \in calls : \E o \in Outcomes(c) : setBreakPoints_set(c, o)
    \/ RunImmediate
SpecOverlap == InitOverlap /\ [][NextOverlap]_vars

\* launching and asking for the stack over the three adapters
InitFrames == (mode \in {"http", "local"} /\ pipelined = FALSE /\ Init) \/ InitStream
NextFrames ==
    \/ \E a \in LaunchArgs : launchRequest(a[1], a[2])
    \/ \E i \in Ids : start(i)
    \/ \E c \in calls : \E o \in Outcomes(c) : start_subscribe(c, o)
    \/ stackTraceRequest
    \/ \E c \in calls : \E o \in Outcomes(c) : stackTrace_got(c, o)
    \/ \E i \in Ids : start_local(i)
    \/ nextRequest_local
    \/ stackTraceRequest_local
    \/ NextStream
SpecFrames == InitFrames /\ [][NextFrames]_vars

\* setting breakpoints over either transport
InitTransports == InitHttp \/ InitStream
NextTransports == NextBreakpoints \/ NextStream
SpecTransports == InitTransports /\ [][NextTransports]_vars


-----------------------------------------------------------------------------
(* Vocabulary of the properties                                            *)

\* the positions of the log where request i is answered
Answers(i) == {p \in DOMAIN log : log[p].req = i /\ log[p].t \in {"response", "error"}}
Successes(i) == {p \in DOMAIN log : log[p].req = i /\ log[p].t = "response"}
Errors(i) == {p \in DOMAIN log : log[p].req = i /\ log[p].t = "error"}
Arrival(i) == CHOOSE p \in DOMAIN log : log[p].req = i /\ log[p].t = "request"
EventsAt(name) == {p \in DOMAIN log : log[p].t = "event" /\ log[p].name = name}
StoppedAt(reason) == {p \in EventsAt("stopped") : log[p].body.reason = reason}

\* nothing is in flight: no call, no deferred notification, no configuration wait
Quiet ==
    calls = {} /\ immQ = <<>> /\ \A i \in Ids : reqs[i].pc \notin {"waitConfig", "notified"}

\* the backend lines a setBreakpoints request asks for
BackendLines(lines) == {convertClientLineToDebugger(lines[k]) : k \in DOMAIN lines}

-----------------------------------------------------------------------------
(* C1 *)

\* C1: over HTTP, once a setBreakpoints request is answered and no later one has
\* arrived, every earlier setBreakpoints request having been answered before it
\* arrived and every call having reached the backend, the backend's breakpoint
\* set is exactly the lines of that request: nothing of an earlier list survives
C1_FullReplace ==
    \A j \in Ids :
        ( /\ mode = "http" /\ nfail = 0
          /\ reqs[j].kind = "setBreakpoints" /\ reqs[j].pc = "done"
          /\ \A k \in Ids \ {j} : reqs[k].kind = "setBreakpoints" =>
                \E p \in Answers(k) : p < Arrival(j) )
        => bkBps = BackendLines(reqs[j].lines)

\* two lists in sequence, the first holding a line the second lacks
C1_Witness ==
    \E i, j \in Ids :
        /\ i < j /\ mode = "http" /\ nfail = 0
        /\ reqs[i].kind = "setBreakpoints" /\ reqs[j].kind = "setBreakpoints"
        /\ reqs[i].pc = "done" /\ reqs[j].pc = "done"
        /\ reqs[j].lines # <<>>
        /\ BackendLines(reqs[i].lines) \ BackendLines(reqs[j].lines) # {}
        /\ bkBps = BackendLines(reqs[j].lines)


-----------------------------------------------------------------------------
(* C4 *)

\* C4 (as stated): in the local mock, with the launch of a program of N lines as
\* the first request, there is at most one 'terminated' event, exactly N-1
\* 'stopped' events of reason step precede it, and no event follows it
C4_StepCount ==
    (mode = "local" /\ Len(reqs) > 0 /\ reqs[1].kind = "launch") =>
        /\ Cardinality(EventsAt("terminated")) <= 1
        /\ \A p \in EventsAt("terminated") :
              /\ Cardinality({q \in StoppedAt("step") : q < p}) = Len(sourceLines) - 1
              /\ \A q \in DOMAIN log : q > p => log[q].t # "event"

-----------------------------------------------------------------------------
(* C6 *)

\* C6 (as stated): over HTTP with every call answered by the backend, no request
\* gets two responses, and once nothing is in flight every request, a continue
\* request included, has got exactly one
C6_ExactlyOneReply ==
    (mode = "http" /\ nfail = 0) =>
        /\ \A i \in Ids : Cardinality(Answers(i)) <= 1
        /\ Quiet => \A i \in Ids : Cardinality(Answers(i)) = 1

-----------------------------------------------------------------------------
(* C7 *)

\* C7 (as stated): when a launch with stopOnEntry has been answered and its start
\* raised 'stopOnEntry', the 'stopped' event of reason entry is in the log before
\* the launch response
C7_EntryBeforeLaunchResponse ==
    \A i \in Ids :
        ( /\ reqs[i].kind = "launch" /\ reqs[i].stop
          /\ \E k \in DOMAIN reqs[i].raised : reqs[i].raised[k].ev = "stopOnEntry" )
        => \A p \in Answers(i) : \E q \in StoppedAt("entry") : Arrival(i) < q /\ q < p

-----------------------------------------------------------------------------
(* C8 *)

\* C8 (as stated): over HTTP, a request one of whose calls failed in transport is
\* not left with an operation that never resolves, and an 'end' notification of
\* it is deferred or has become a 'terminated' event
C8_FailureStillResolves ==
    \A i \in Ids :
        (mode = "http" /\ reqs[i].nulls > 0) =>
            /\ reqs[i].pc # "hung"
            /\ \/ \E k \in DOMAIN immQ : immQ[k].ev = "end" /\ immQ[k].by = i
               \/ \E p \in EventsAt("terminated") : p > Arrival(i)

-----------------------------------------------------------------------------
(* C9 *)

\* C9 (as stated): no handler of setBreakpoints, stackTrace or variables raises a
\* fault, and such a request one of whose calls failed in transport is answered
\* once none of its calls is outstanding
C9_NoFaultEscapes ==
    /\ faults = 0
    /\ \A i \in Ids :
          ( /\ reqs[i].kind \in {"setBreakpoints", "stackTrace", "variables"}
            /\ reqs[i].nulls > 0 /\ ~Waiting(i) )
          => Cardinality(Answers(i)) = 1

-----------------------------------------------------------------------------
(* C10 *)

\* the error texts the Load and the Start reply of launch i carry
ReplyErrors(i) == {reqs[i].got[k].error : k \in DOMAIN reqs[i].got} \ {""}

-----------------------------------------------------------------------------
(* C2 *)

\* the calls that carry a guid: request i's slot k
Tagged == {c \in Ids \X (1..MaxLines + 1) : c[2] \in DOMAIN reqs[c[1]].guids}

\* C2: on the socket adapter, with requests sent without awaiting the answers,
\* the guids of the tagged calls are pairwise different, and every tagged call
\* (start, setBreakPoint, getStackFrames) that has resolved holds the reply that
\* carries its own guid; for setBreakPoint that is the reply for its own line
C2_Correlation ==
    mode = "stream" =>
        /\ \A c, d \in Tagged :
              reqs[c[1]].guids[c[2]] = reqs[d[1]].guids[d[2]] => c = d
        /\ \A c \in Tagged :
              LET r == reqs[c[1]]
              IN r.got[c[2]] # NoReply =>
                    /\ r.got[c[2]].guid = r.guids[c[2]]
                    /\ r.kind = "setBreakpoints" =>
                          r.got[c[2]].line = convertClientLineToDebugger(r.lines[c[2]])

\* tagged calls of two requests were outstanding at once, two still are, and a
\* later call has resolved while the reply to an earlier one waits unread behind it
C2_Witness ==
    /\ mode = "stream"
    /\ \E c \in Tagged : \E s \in subs :
          /\ reqs[c[1]].got[c[2]] # NoReply
          /\ s.guid # NoGuid /\ s.guid < reqs[c[1]].guids[c[2]]
          /\ s.req # c[1]
          /\ \E q \in DOMAIN sockIn : sockIn[q].guid = s.guid
    /\ Cardinality({s \in subs : s.guid # NoGuid}) >= 2

-----------------------------------------------------------------------------
(* C3 *)

StopOrEnd(raised) == SelectSeq(raised, LAMBDA n : n.ev \in {"stopOnStep", "end"})

\* C3 (as stated): every resolved call of step in the local mock and the socket
\* adapter raised exactly one notification, 'stopOnStep' or 'end', and resolved
\* with true exactly when it is 'end'
C3_OneNotification ==
    \A k \in DOMAIN stepLog :
        /\ Len(stepLog[k].raised) = 1
        /\ stepLog[k].raised[1].ev \in {"stopOnStep", "end"}
        /\ stepLog[k].ended <=> stepLog[k].raised[1].ev = "end"

\* C3 (amended): every resolved call of step in the local mock and the socket
\* adapter raised exactly one of the notifications 'stopOnStep' and 'end', and
\* resolved with true exactly when it is 'end'; whatever else it raised is the
\* one 'output' notification the local mock raises after a 'stopOnStep'
C3_StepXorEnd ==
    \A k \in DOMAIN stepLog :
        LET r == stepLog[k]
        IN /\ Len(StopOrEnd(r.raised)) = 1
           /\ r.raised[1] = StopOrEnd(r.raised)[1]
           /\ r.ended <=> r.raised[1].ev = "end"
           /\ \A n \in 2..Len(r.raised) :
                 /\ r.raised[n].ev = "output" /\ n = 2
                 /\ mode = "local" /\ ~r.ended

\* a call of step that went on and raised two notifications, and one that ended
C3_Witness ==
    \E k, l \in DOMAIN stepLog :
        /\ ~stepLog[k].ended /\ Len(stepLog[k].raised) = 2
        /\ stepLog[l].ended /\ Len(stepLog[l].raised) = 1

-----------------------------------------------------------------------------
(* C5 *)

\* the calls of step a caller makes who steps the local mock from `line` until
\* step reports the end
RECURSIVE ManualSteps_local(_, _)
ManualSteps_local(line, lines) ==
    LET st == step_local(0, line, lines, Undefined)
    IN IF st.ended THEN 1 ELSE 1 + ManualSteps_local(st.line, lines)

\* the same for the socket adapter, against a backend with `remain` steps left
RECURSIVE ManualSteps_stream(_)
ManualSteps_stream(remain) ==
    LET r == BackendStep(remain)
    IN IF r.debugCommand = "end" THEN 1 ELSE 1 + ManualSteps_stream(r.remain)

ManualSteps(i) ==
    IF mode = "local"
    THEN ManualSteps_local(reqs[i].from, reqs[i].prog)
    ELSE ManualSteps_stream(reqs[i].from)

\* C5: a continue of the local mock, or of the socket adapter on an open socket
\* with no other subscriber and nothing in transit, never makes more calls of
\* step than the caller who steps by hand from the same state until the end; when it has
\* resolved it has made exactly as many; and while it loops over a socket that
\* neither side has ended, its current step is on its way to the backend or the
\* reply on its way back
C5_ContinueSteps ==
    \A i \in Ids :
        ( /\ mode \in {"local", "stream"} /\ reqs[i].kind = "continue"
          /\ mode = "stream" => reqs[i].solo )
        => /\ reqs[i].steps <= ManualSteps(i)
           /\ reqs[i].pc = "done" => reqs[i].steps = ManualSteps(i) /\ reqs[i].ended
           /\ reqs[i].pc # "done" =>
                 /\ reqs[i].pc = "looping"
                 /\ (mode = "stream" /\ client = "open") =>
                       /\ \E s \in subs : s.req = i /\ s.kind = "step"
                       /\ \/ \E q \in DOMAIN toBackend : toBackend[q].debugCommand = "step"
                          \/ \E q \in DOMAIN sockIn : sockIn[q].guid = NoGuid

\* a continue over the socket that resolved after more than one step
C5_Witness ==
    \E i \in Ids :
        /\ mode = "stream" /\ reqs[i].kind = "continue" /\ reqs[i].solo
        /\ reqs[i].pc = "done" /\ reqs[i].steps >= 2


-----------------------------------------------------------------------------
(* C11 *)

\* the outward event e is the one the table gives for notification n
Translates(n, e) ==
    /\ e.t = "event"
    /\ CASE n.ev = "stopOnEntry" -> e.name = "stopped" /\ e.body.reason = "entry"
         [] n.ev = "stopOnStep" -> e.name = "stopped" /\ e.body.reason = "step"
         [] n.ev = "stopOnBreakpoint" -> e.name = "stopped" /\ e.body.reason = "breakpoint"
         [] n.ev = "stopOnException" ->
               /\ e.name = "stopped"
               /\ e.body.reason = IF Truthy(n.arg)
                                  THEN "exception(" \o n.arg[2] \o ")"
                                  ELSE "exception"
         [] n.ev = "breakpointValidated" ->
               /\ e.name = "breakpoint" /\ e.body.reason = "changed"
               /\ n.arg # Undefined =>
                     e.body.verified = n.arg.verified /\ e.body.id = n.arg.id
         [] n.ev = "output" -> e.name = "output"
         [] n.ev = "end" -> e.name = "terminated"
         [] OTHER -> FALSE

\* C11 (as stated): whenever a deferred notification is emitted, exactly one
\* outward event is written, and it is the one the table gives for the notification
C11_OneToOne ==
    [][(immQ # <<>> /\ immQ' = Tail(immQ)) =>
            /\ Len(log') = Len(log) + 1
            /\ Translates(Head(immQ), log'[Len(log')])]_vars


-----------------------------------------------------------------------------
(* C12 *)

\* a configurationDone request arrived after launch i did
ConfiguredAfter(i) ==
    \E j \in Ids : reqs[j].kind = "configurationDone" /\ Arrival(j) > Arrival(i)

\* C12: over HTTP, a launch makes no backend call and gets no answer while it
\* waits for the configuration; a wait ended by notify follows a
\* configurationDone request that arrived after the launch; and a launch whose
\* wait timed out and whose Load and Start replies carry no error is answered
\* with exactly one success response and no error response
C12_BoundedWait ==
    \A i \in Ids :
        (mode = "http" /\ reqs[i].kind = "launch") =>
            /\ reqs[i].pc \in {"waitConfig", "notified"} =>
                  /\ reqs[i].woke = "" /\ Answers(i) = {}
                  /\ \A c \in calls : c.req # i
            /\ reqs[i].pc \notin {"waitConfig", "notified"} =>
                  reqs[i].woke \in {"timeout", "notify"}
            /\ (reqs[i].pc = "notified" \/ reqs[i].woke = "notify") => ConfiguredAfter(i)
            /\ (reqs[i].pc = "done" /\ reqs[i].woke = "timeout" /\ ReplyErrors(i) = {}) =>
                  Cardinality(Successes(i)) = 1 /\ Errors(i) = {}

\* a launch that was answered with success though no configurationDone ever came
C12_Witness ==
    \E i \in Ids :
        /\ mode = "http" /\ reqs[i].kind = "launch" /\ reqs[i].pc = "done"
        /\ reqs[i].woke = "timeout" /\ Cardinality(Successes(i)) = 1
        /\ \A j \in Ids : reqs[j].kind # "configurationDone"


-----------------------------------------------------------------------------
(* C13 *)

\* C13 (as stated): over HTTP no Debug/Step call is in flight for a request that
\* arrived after a 'terminated' event was written
C13_TerminalGuard ==
    \A c \in calls :
        (mode = "http" /\ c.ep = "Debug/Step") =>
            \A p \in EventsAt("terminated") : Arrival(c.req) < p

(* C14 *)
\* a continue of the socket adapter that still waits for a step reply
StillLooping(i) ==
    /\ reqs[i].kind = "continue" /\ reqs[i].pc = "looping"
    /\ \E s \in subs : s.req = i /\ s.kind = "step"

\* C14 (as stated): over the socket adapter, once the connection has ended and
\* nothing is left to read or to emit, no continue that began on an open socket
\* and was looping when a disconnect was handled is still waiting for a step reply
C14_ContinueSeesDisconnect ==
    (mode = "stream" /\ client = "closed" /\ sockIn = <<>> /\ immQ = <<>>)
        => \A i \in Ids :
              (\E j \in Ids : reqs[j].kind = "disconnect" /\ Arrival(j) > Arrival(i))
                  => ~(reqs[i].solo /\ StillLooping(i))

(* C15 *)
\* C15 (as stated): over HTTP, once a disconnect has been answered and nothing is
\* left to emit, no backend call issued before that disconnect arrived is still
\* in flight
C15_DisconnectCancels ==
    \A j \in Ids :
        (mode = "http" /\ reqs[j].kind = "disconnect" /\ immQ = <<>>) =>
            /\ Cardinality(Successes(j)) = 1
            /\ \A c \in calls : Arrival(c.req) > Arrival(j)

(* C16 *)
\* the breakpoint the handler builds from the backend's answer to the set call
\* made for client line l
AnswerFor(l) ==
    LET a == CHOOSE r \in BackendReplies(Call(0, 0, "Breakpoint/Set",
                                              convertClientLineToDebugger(l))) : TRUE
    IN [verified |-> a.verified, line |-> convertDebuggerLineToClient(a.line),
        id |-> a.id]

\* C16: over HTTP, a setBreakpoints response carries as many breakpoints as the
\* request has lines, and the k-th one is the backend's answer to the set call
\* made for the k-th line, in whatever order the set calls completed
C16_RequestOrder ==
    \A i \in Ids : \A p \in Successes(i) :
        (mode = "http" /\ reqs[i].kind = "setBreakpoints") =>
            LET bps == log[p].body.breakpoints
            IN /\ Len(bps) = Len(reqs[i].lines)
               /\ \A k \in 1..Len(bps) : bps[k] = AnswerFor(reqs[i].lines[k])

\* a request for lines 2, 1 is answered after the set call for its second line
\* completed before the one for its first line
C16_Witness ==
    \E i \in Ids :
        /\ mode = "http" /\ reqs[i].kind = "setBreakpoints"
        /\ reqs[i].lines = <<2, 1>> /\ reqs[i].order = <<2, 1>>
        /\ Successes(i) # {}

(* C17 *)
\* the HTTP calls a step issues, and the commands it writes to the socket
NewCalls == calls' \ calls
Written ==
    IF Len(toBackend') > Len(toBackend)
    THEN SubSeq(toBackend', Len(toBackend) + 1, Len(toBackend'))
    ELSE <<>>
Clears(q) == {k \in DOMAIN q : q[k].debugCommand = "clearBreakpoints"}

\* the setBreakpoints requests whose clearBreakpoints runs in this step
Clearing ==
    {i \in 1..Len(reqs') :
        /\ reqs'[i].kind = "setBreakpoints"
        /\ IF mode = "http" THEN i > Len(reqs)
           ELSE /\ reqs'[i].pc # "connecting"
                /\ i \in Ids => reqs[i].pc = "connecting"}

\* C17: a step issues a set-breakpoint command only for a request whose clear
\* command went first: over HTTP the clear call was in flight and this step is
\* its answer, over the socket the clear command is written earlier in the same
\* step; and a clear command is issued exactly when a request's clearBreakpoints
\* runs, once, whether or not the request has lines
C17_ClearBeforeSet ==
    [][ /\ \A c \in NewCalls : c.ep = "Breakpoint/Set" =>
              /\ clearBreakpoints(c.req) \in calls \ calls'
              /\ \A d \in calls : d.req = c.req => d = clearBreakpoints(c.req)
        /\ \A i \in 1..Len(reqs') :
              (mode = "http" /\ reqs'[i].kind = "setBreakpoints") =>
                  (clearBreakpoints(i) \in NewCalls <=> i \in Clearing)
        /\ \A k \in DOMAIN Written : Written[k].debugCommand = "setBreakpoint" =>
              /\ \E j \in Clears(Written) : j < k
              /\ \E i \in Clearing : \E n \in DOMAIN reqs'[i].guids :
                    reqs'[i].guids[n] = Written[k].guid
        /\ mode = "stream" => Cardinality(Clears(Written)) = Cardinality(Clearing)
      ]_vars

\* over HTTP a request with lines has its set calls in flight, and a request
\* without lines has been answered; over the socket a request with lines has
\* been answered
C17_Witness ==
    \/ /\ mode = "http"
       /\ \E c \in calls : c.ep = "Breakpoint/Set"
       /\ \E i \in Ids : /\ reqs[i].kind = "setBreakpoints" /\ reqs[i].lines = <<>>
                          /\ Successes(i) # {}
    \/ /\ mode = "stream"
       /\ \E i \in Ids : /\ reqs[i].kind = "setBreakpoints" /\ reqs[i].lines # <<>>
                          /\ Successes(i) # {}

(* C18 *)
\* C18 (as stated): once every character the backend wrote has been handed to
\* the 'data' listener, in whatever chunks, the objects delivered on dataSubject
\* are the messages written, each once and in the order written
C18_Reframing ==
    (mode = "stream" /\ wire = <<>>) =>
        dataSubject = [k \in 1..Len(wrote) |-> parseObject(wrote[k])]

(* C19 *)
\* C19: with the debugger's lines starting at 0 and the client's at 0 or at 1,
\* converting a line to the debugger and back, or to the client and back, gives
\* the line; and every verified breakpoint of a setBreakpoints response over
\* HTTP, the backend answering with the line it was asked for, is on the client
\* line that was requested
C19_RoundTrip ==
    /\ ~debuggerLinesStartAt1
    /\ \A l \in 0..MaxLines :
          /\ convertDebuggerLineToClient(convertClientLineToDebugger(l)) = l
          /\ convertClientLineToDebugger(convertDebuggerLineToClient(l)) = l
    /\ \A i \in Ids : \A p \in Successes(i) :
          (mode = "http" /\ reqs[i].kind = "setBreakpoints") =>
              \A k \in 1..Len(log[p].body.breakpoints) :
                  log[p].body.breakpoints[k].verified =>
                      log[p].body.breakpoints[k].line = reqs[i].lines[k]

\* a client whose lines start at 1 has been told of a verified breakpoint
C19_Witness ==
    /\ mode = "http" /\ clientLinesStartAt1
    /\ \E i \in Ids : \E p \in Successes(i) :
          /\ reqs[i].kind = "setBreakpoints"
          /\ \E k \in 1..Len(log[p].body.breakpoints) :
                log[p].body.breakpoints[k].verified

(* C20 *)
\* the response a step writes for request kind `name` with the backend's data
Writes(name) ==
    /\ Len(log') = Len(log) + 1
    /\ log'[Len(log')].t = "response" /\ log'[Len(log')].name = name
    /\ nfail' = nfail

\* C20 (as stated): over HTTP every line of a response is the backend's line
\* converted once to the client's base: the breakpoints of a setBreakpoints
\* response, the frames of a stackTrace response, and the lines of a
\* breakpointLocations response, which are the backend's breakpoints
C20_OutwardEdges ==
    [][ /\ Writes("setBreakpoints") =>
              LET i == log'[Len(log')].req
                  bps == log'[Len(log')].body.breakpoints
              IN \A k \in 1..Len(bps) :
                    bps[k].line = convertDebuggerLineToClient(reqs'[i].got[k].line)
        /\ Writes("stackTrace") =>
              \A c \in calls \ calls' : \A r \in BackendReplies(c) :
                  LET out == log'[Len(log')].body.stackFrames
                  IN /\ Len(out) = Len(r.frames)
                     /\ \A k \in 1..Len(out) :
                           out[k].line = convertDebuggerLineToClient(r.frames[k].line)
        /\ Writes("breakpointLocations") =>
              log'[Len(log')].body.spread =
                  {convertDebuggerLineToClient(l) : l \in bkBps}
      ]_vars

(* C21 *)
\* C21 (as stated): over HTTP the Debug/Start call of a launch is never in flight
\* together with its Debug/Load call, and is never answered before it
C21_LoadPrecedesStart ==
    \A i \in Ids :
        (mode = "http" /\ reqs[i].kind = "launch") =>
            /\ ~(\E c \in calls : c.req = i /\ c.ep = "Debug/Start"
                  /\ \E d \in calls : d.req = i /\ d.ep = "Debug/Load")
            /\ ~(/\ Len(reqs[i].got) = 2
                 /\ reqs[i].got[1].st = "pending"
                 /\ reqs[i].got[2].st # "pending")

(* C22 *)
\* C22: over HTTP, a setBreakpoints response has an entry for every requested
\* line, and for a line the backend answered with verified = false the entry is
\* unverified and carries the backend's id; the handler throws only on a null
\* result, never on an unverified answer; and once every set call has been
\* answered with data the response has been written
C22_UnverifiedSurfaced ==
    \A i \in Ids :
        (mode = "http" /\ reqs[i].kind = "setBreakpoints") =>
            /\ \A p \in Successes(i) :
                  LET bps == log[p].body.breakpoints
                  IN /\ Len(bps) = Len(reqs[i].lines)
                     /\ \A k \in 1..Len(bps) :
                           ~AnswerFor(reqs[i].lines[k]).verified =>
                               /\ ~bps[k].verified
                               /\ bps[k].id = AnswerFor(reqs[i].lines[k]).id
            /\ reqs[i].pc = "thrown" =>
                  \E k \in 1..Len(reqs[i].got) : reqs[i].got[k].st = "null"
            /\ ( /\ reqs[i].lines # <<>> /\ Len(reqs[i].got) = Len(reqs[i].lines)
                 /\ \A k \in 1..Len(reqs[i].got) : reqs[i].got[k].st = "ok" )
                  => Cardinality(Successes(i)) = 1

\* a response that reports a requested line as unverified
C22_Witness ==
    \E i \in Ids : \E p \in Successes(i) :
        /\ mode = "http" /\ reqs[i].kind = "setBreakpoints"
        /\ \E k \in 1..Len(log[p].body.breakpoints) :
              /\ ~log[p].body.breakpoints[k].verified
              /\ ~AnswerFor(reqs[i].lines[k]).verified

(* C23 *)
\* C23 (as stated): over the socket, a step in which the 'data' listener hands
\* one message to dataSubject resolves at most one pending call and raises at
\* most one notification
C23_ClaimedOnce ==
    [][ (mode = "stream" /\ sockIn # <<>> /\ sockIn' = Tail(sockIn)) =>
            /\ Cardinality(subs \ subs') <= 1
            /\ Len(immQ') <= Len(immQ) + 1
            /\ Len(stepLog') <= Len(stepLog) + 1 ]_vars

(* C24 *)
IsEvent(e) == e.t = "event"

\* the outward events a step writes
NewEvents == SelectSeq(SubSeq(log', Len(log) + 1, Len(log')), IsEvent)

\* C24: over HTTP the deferred notifications form a queue in the order of the
\* sendEvent calls: a step either emits the oldest one, writing exactly the
\* events its listener sends after everything written before, or adds
\* notifications behind those that wait and writes no event; nothing written is
\* ever changed
C24_EventOrder ==
    [][ /\ Len(log') >= Len(log) /\ SubSeq(log', 1, Len(log)) = log
        /\ \/ /\ immQ # <<>> /\ immQ' = Tail(immQ)
              /\ NewEvents = setupEvents(Head(immQ))
           \/ /\ Len(immQ') >= Len(immQ) /\ SubSeq(immQ', 1, Len(immQ)) = immQ
              /\ NewEvents = <<>> ]_vars

\* two notifications deferred by one handler have been emitted: the stop on
\* entry of a start, then the end raised for its failed Load request
C24_Witness ==
    /\ mode = "http"
    /\ \E p \in DOMAIN log :
          /\ p + 1 \in DOMAIN log
          /\ log[p].t = "event" /\ log[p].name = "stopped"
          /\ log[p + 1].t = "event" /\ log[p + 1].name = "terminated"

(* C25 *)
\* the payload objects RuntimeClient sends: { file }, { stopOnEntry }, { line }
Payloads ==
    {payload(Call(0, 0, ep, arg)) :
        ep \in {"Debug/Load", "Debug/Start", "Breakpoint/Set"}, arg \in 0..MaxLines}

\* result has, for every key of value, the key with its first character in
\* upper case and the same value, and no other key
Normalized(value, result) ==
    /\ \A k \in DOMAIN value : \E j \in DOMAIN result :
          /\ result[j].key[1] = toUpperCase(value[k].key[1])
          /\ Tail(result[j].key) = Tail(value[k].key)
          /\ result[j].val = value[k].val
    /\ \A j \in DOMAIN result : \E k \in DOMAIN value :
          result[j].key = fkey(value[k].key)
    /\ Len(result) = Len(value)

C26_ExceptionReason ==
    [][ (immQ # <<>> /\ immQ' = Tail(immQ) /\ Head(immQ).ev = "stopOnException") =>
            LET d == Head(immQ).arg
            IN /\ Len(NewEvents) = 1
               /\ NewEvents[1].name = "stopped"
               /\ NewEvents[1].body.threadId = 1
               /\ (d # Undefined /\ d # Str("")) =>
                      NewEvents[1].body.reason = "exception(" \o d[2] \o ")"
               /\ (d = Undefined \/ d = Str("")) =>
                      NewEvents[1].body.reason = "exception" ]_vars

\* stopped events for an exception with a detail, with an empty detail and with
\* none have been written
C26_Witness ==
    /\ \E p \in StoppedAt("exception(Err)") : TRUE
    /\ Cardinality(StoppedAt("exception")) >= 2

(* C27 *)
\* C27: over HTTP every threads request is answered at once with exactly one
\* thread, whose id is 1, whatever the session has done before; and every
\* stopped event written carries thread id 1
C27_SingleThread ==
    /\ \A i \in Ids :
          (mode = "http" /\ reqs[i].kind = "threads") =>
              /\ Answers(i) = {Arrival(i) + 1}
              /\ LET threads == log[Arrival(i) + 1].body.threads
                 IN log[Arrival(i) + 1].t = "response"
                    /\ Len(threads) = 1 /\ threads[1].id = 1
    /\ \A p \in EventsAt("stopped") : log[p].body.threadId = 1

\* a threads request answered after a stopped and a terminated event
C27_Witness ==
    \E i \in Ids :
        /\ mode = "http" /\ reqs[i].kind = "threads" /\ Successes(i) # {}
        /\ \E p \in EventsAt("stopped") : p < Arrival(i)
        /\ \E p \in EventsAt("terminated") : p < Arrival(i)

(* C28 *)
\* what the backend would answer to a variables and to a breakpoints query
WouldAnswer ==
    <<BackendReplies(Call(0, 0, "Variable/Get", 0)),
      BackendReplies(Call(0, 0, "Breakpoint/Get", 0))>>

\* C28: over HTTP the step that handles a setVariable request writes the request
\* and its success response and nothing else, issues no backend call, defers no
\* notification, and leaves the source path, the source text, the backend's
\* state and what the backend would answer to a variables query as they were
C28_SetVariableNoOp ==
    [][ (Len(reqs') = Len(reqs) + 1 /\ reqs'[Len(reqs')].kind = "setVariable") =>
            /\ log' = log \o <<ReqMsg(Len(reqs'), "setVariable"),
                                Response(Len(reqs'), "setVariable", NoBody)>>
            /\ calls' = calls /\ immQ' = immQ /\ faults' = faults
            /\ sourcePath' = sourcePath /\ sourceText' = sourceText
            /\ bkBps' = bkBps /\ nfail' = nfail
            /\ WouldAnswer' = WouldAnswer ]_vars

\* a setVariable request answered while the backend holds a breakpoint
C28_Witness ==
    /\ mode = "http" /\ bkBps # {}
    /\ \E i \in Ids : reqs[i].kind = "setVariable" /\ Successes(i) # {}

(* C29 *)
\* C29: sourcePath is undefined until a start has run, and once a start has
\* assigned it no later step changes it, the start of a second launch included
C29_SourcePathSetOnce ==
    [][ /\ (sourcePath = Undefined /\ sourcePath' # Undefined) =>
               \E i \in Ids : reqs[i].kind = "launch" /\ reqs'[i].pc = "starting"
                                /\ reqs[i].pc # "starting" /\ sourcePath' = reqs[i].path
        /\ sourcePath # Undefined => sourcePath' = sourcePath ]_vars

(* C30 *)
\* the setBreakpoints requests whose clearBreakpoints resolves in this step
\* without a transport failure
Cleared == {i \in Ids : /\ clearBreakpoints(i) \in calls \ calls'
                         /\ nfail' = nfail}

\* C30: over HTTP a clearBreakpoints that resolves without a transport failure
\* leaves the backend with the empty breakpoint set whatever the set was before,
\* the empty set included, so a second clear leaves what the first left; it puts
\* no null result on the request, raises no notification, and the handler goes
\* on to set the requested lines or to answer
C30_ClearIdempotent ==
    [][ \A i \in Cleared :
            /\ bkBps' = {}
            /\ immQ' = immQ
            /\ reqs'[i].nulls = reqs[i].nulls
            /\ reqs'[i].pc = (IF Len(reqs[i].lines) = 0 THEN "done" ELSE "setting")
            /\ Len(reqs[i].lines) = 0 =>
                    log' = Append(log, Response(i, "setBreakpoints", [breakpoints |-> <<>>])) ]_vars

\* two setBreakpoints requests without lines were answered one after the other:
\* the second clear found no breakpoint registered, and no terminated event came
C30_Witness ==
    /\ mode = "http" /\ Len(reqs) = 2 /\ nfail = 0 /\ bkBps = {}
    /\ \A i \in Ids : /\ reqs[i].kind = "setBreakpoints" /\ Len(reqs[i].lines) = 0
                       /\ Successes(i) # {}
    /\ EventsAt("terminated") = {}

(* C31 *)
\* the nesting depth of str after its first i characters
Depth(str, i) ==
    Cardinality({j \in 1..i : str[j] = "{"}) - Cardinality({j \in 1..i : str[j] = "}"})

\* str is brace-balanced objects, other characters between them, and at most an
\* incomplete object at the end: the depth never falls below zero
BalancedChunk(str) == \A i \in 1..Len(str) : Depth(str, i) >= 0

\* the positions of str where an object begins that is complete within str
CompleteStarts(str) ==
    {a \in 1..Len(str) : /\ str[a] = "{" /\ Depth(str, a - 1) = 0
                          /\ \E b \in a..Len(str) : Depth(str, b) = 0}

\* the complete objects of str, in order: each from its opening brace to the
\* first position where the depth is back at zero
UnitsOf(str) ==
    LET S == CompleteStarts(str)
        At(r) == CHOOSE a \in S : Cardinality({x \in S : x < a}) = r - 1
        End(a) == CHOOSE b \in a..Len(str) :
                      Depth(str, b) = 0 /\ \A x \in a..(b - 1) : Depth(str, x) > 0
    IN [r \in 1..Cardinality(S) |-> SubSeq(str, At(r), End(At(r)))]

\* the chunk the 'data' listener takes off the wire in this step
Chunk == SubSeq(wire, 1, Len(wire) - Len(wire'))

\* a step of the 'data' listener
TakesChunk ==
    /\ mode = "stream" /\ Len(wire') < Len(wire)
    /\ wire' = SubSeq(wire, Len(wire) - Len(wire') + 1, Len(wire))

\* C31: when the 'data' listener takes a chunk made of k brace-balanced objects,
\* other characters between them and at most an incomplete object at its end,
\* getJsonArray gives undefined for k = 0 and otherwise the array text of
\* exactly the k objects in order, each ending where the depth is back at zero;
\* these k objects and nothing else go to dataSubject
C31_BalancedFraming ==
    [][ (TakesChunk /\ BalancedChunk(Chunk)) =>
            LET units == UnitsOf(Chunk)
            IN /\ getJsonArray(Chunk) =
                     (IF Len(units) = 0 THEN Undefined
                      ELSE <<"[">> \o join(units) \o <<"]">>)
               /\ dataSubject' =
                     dataSubject \o [r \in 1..Len(units) |-> parseObject(units[r])] ]_vars

\* the two messages the backend wrote, one of them holding a nested object, have
\* been delivered and nothing is left on the wire
C31_Witness ==
    /\ mode = "stream" /\ wire = <<>> /\ Len(wrote) = 2
    /\ dataSubject = [k \in 1..2 |-> parseObject(wrote[k])]
    /\ \E k \in 1..2 : Len(dataSubject[k]) = 2

(* C32 *)
\* C32 (as stated): over HTTP, when a second setBreakpoints request arrived while
\* the first was not answered yet, and both are answered with every call having
\* reached the backend, the backend's breakpoint set is exactly the lines of the
\* second request
C32_LastRequestWins ==
    ( /\ mode = "http" /\ nfail = 0 /\ calls = {} /\ Len(reqs) = 2
      /\ \A i \in Ids : reqs[i].kind = "setBreakpoints" /\ reqs[i].pc = "done"
      /\ \A p \in Answers(1) : p > Arrival(2) )
    => bkBps = BackendLines(reqs[2].lines)

(* C33 *)
\* the next requests whose step raises its notifications in this step
StepRaises ==
    {i \in DOMAIN reqs' :
        /\ reqs'[i].kind = "next" /\ reqs'[i].raised # <<>>
        /\ i \in DOMAIN reqs => reqs[i].raised = <<>>}

\* the oldest deferred notification is emitted in this step, and it was raised by
\* the step of next request i
EmitsOf(i) ==
    /\ immQ # <<>> /\ immQ' = Tail(immQ)
    /\ Head(immQ).by = i /\ reqs[i].kind = "next"
    /\ \E k \in DOMAIN reqs[i].raised : reqs[i].raised[k] = Head(immQ)

\* C33: over HTTP and in the local mock, the step in which the step of a next
\* request raises its notification writes the response of that request and only
\* defers the notification; and when a notification raised by the step of a next
\* request is emitted, the response of that request is already in the log and
\* the events of the notification are written after it
C33_ResponseBeforeEvent ==
    [][ (mode # "stream") =>
         (/\ \A i \in StepRaises :
                /\ \E p \in DOMAIN log' : log'[p].req = i /\ log'[p].t = "response"
                /\ immQ' = immQ \o reqs'[i].raised
                /\ \A p \in (Len(log) + 1)..Len(log') : log'[p].t # "event"
          /\ \A i \in Ids : EmitsOf(i) =>
                /\ Successes(i) # {}
                /\ log' = log \o setupEvents(Head(immQ))) ]_vars

\* a next request was answered and the stopped event of its step, and the
\* terminated event of a later step, were written after the response
C33_Witness ==
    \E i, j \in Ids :
        /\ i < j /\ reqs[i].kind = "next" /\ reqs[j].kind = "next"
        /\ reqs[i].raised # <<>> /\ reqs[i].raised[1].ev = "stopOnStep"
        /\ reqs[j].raised # <<>> /\ reqs[j].raised[1].ev = "end"
        /\ \E p \in Successes(i) : \E q \in StoppedAt("step") : p < q
        /\ \E p \in Successes(j) : \E q \in EventsAt("terminated") : p < q

(* C34 *)
\* C34 (as stated): whatever the requests that follow a launch and whatever the
\* outcomes, the session writes at most one terminated event
C34_AtMostOneTerminated ==
    (Len(reqs) > 0 /\ reqs[1].kind = "launch") =>
        Cardinality(EventsAt("terminated")) <= 1

(* C35 *)
\* the launches whose start resolves in this step
StartResolves ==
    {i \in Ids : reqs[i].kind = "launch" /\ reqs[i].pc = "starting" /\ reqs'[i].pc = "done"}

\* the notifications appended to the deferred queue in this step
NewNotifs == SubSeq(immQ', Len(immQ) + 1, Len(immQ'))

\* C35: over HTTP, when start resolves with a Load or a Start reply that carries
\* an error, the step defers no stop notification, the Start reply naming an
\* event or not, and the launch is answered with the error response of the Load
\* reply's error, or else of the Start reply's; when neither reply carries an
\* error and the Start reply names an event, exactly that one event is deferred,
\* and none when it names no event.  Only the 'end' of a transport failure may
\* come on top
C35_NoStopOnFailedStart ==
    [][ \A i \in StartResolves :
            LET load == reqs'[i].got[1]
                started == reqs'[i].got[2]
                error == IF load.error # "" THEN load.error ELSE started.error
                stops == SelectSeq(NewNotifs, LAMBDA n : n.ev # "end")
            IN /\ Len(NewNotifs) - Len(stops) = nfail' - nfail
               /\ error # "" =>
                     /\ stops = <<>>
                     /\ log' = Append(log, ErrorResponse(i, "launch",
                                  [id |-> 1001, format |-> <<"Runtime: ", error>>,
                                   showUser |-> TRUE]))
               /\ (error = "" /\ started.event # "") =>
                     /\ Len(stops) = 1 /\ stops[1].ev = started.event
                     /\ log' = Append(log, Response(i, "launch", NoBody))
               /\ (error = "" /\ started.event = "") => stops = <<>> ]_vars

\* a launch whose Start reply carried an error and named 'stopOnEntry' was
\* answered with the error, and no stopped event was written
C35_Witness ==
    \E i \in Ids :
        /\ mode = "http" /\ reqs[i].kind = "launch" /\ reqs[i].pc = "done"
        /\ reqs[i].got[2].error # "" /\ reqs[i].got[2].event = "stopOnEntry"
        /\ Errors(i) # {} /\ immQ = <<>> /\ EventsAt("stopped") = {}

(* C36 *)
\* the launches that are resolved and whose Load or Start request failed in
\* transport
FailedInTransport ==
    {i \in Ids : /\ mode = "http" /\ reqs[i].kind = "launch" /\ reqs[i].pc = "done"
                  /\ \E k \in 1..2 : reqs[i].got[k].st = "null"}

\* the 'end' notifications emitted or still deferred
Ends ==
    Cardinality(EventsAt("terminated")) +
    Cardinality({k \in DOMAIN immQ : immQ[k].ev = "end"})

\* C36 (as stated): a launch over HTTP whose Load or Start request failed in
\* transport is answered with a success response and never with the error
\* response
C36_FailureIsSuccess ==
    \A i \in FailedInTransport : Successes(i) # {} /\ Errors(i) = {}

\* C36 (amended): a launch over HTTP whose Load or Start request failed in
\* transport, the other reply carrying no error, is answered with exactly one
\* success response and no error response, and every failed request has raised
\* an 'end', emitted as a terminated event or still deferred
C36_FailureIsSuccessUnlessError ==
    \A i \in FailedInTransport :
        /\ ReplyErrors(i) = {} =>
                Cardinality(Successes(i)) = 1 /\ Errors(i) = {}
        /\ Ends >= reqs[i].nulls /\ reqs[i].nulls >= 1

\* a launch whose Load request failed in transport was answered with success,
\* and the terminated event has been written
C36_Witness ==
    \E i \in FailedInTransport :
        /\ reqs[i].got[1].st = "null" /\ reqs[i].got[2].st = "ok"
        /\ Successes(i) # {} /\ EventsAt("terminated") # {} /\ immQ = <<>>

(* C37 *)
\* C37 (as stated): in the local mock the current line is never below 0 and
\* never above the last line of the program, 0 for a program without lines
C37_LineInBounds ==
    mode = "local" =>
        /\ 0 <= mockLine
        /\ mockLine <= (IF Len(sourceLines) > 1 THEN Len(sourceLines) - 1 ELSE 0)

(* C38 *)
\* n is an 'output' notification for the line the local mock is at after this
\* step: its line is the current line, its text the text of that line of the
\* program (undefined where the program has no such line), its file the source
IsOutputOfLine(n) ==
    /\ n.ev = "output" /\ n.line = mockLine'
    /\ n.text = (IF mockLine' + 1 \in DOMAIN sourceLines'
                 THEN sourceLines'[mockLine' + 1] ELSE Undefined)
    /\ n.file = sourcePath'

\* the launches whose start resolves in this step, in the local mock
StartResolves_local ==
    {i \in Ids : reqs[i].kind = "launch" /\ reqs[i].pc = "waitConfig" /\ reqs'[i].pc = "done"}

\* C38: in the local mock, the step in which start resolves defers 'stopOnEntry'
\* and then one 'output' notification for the current line, and nothing else; a
\* call of step that does not end the program defers 'stopOnStep' and then one
\* 'output' notification for the line it moved to, and nothing else; a call of
\* step that ends the program defers 'end' and nothing else
C38_StopThenOutput ==
    [][ (mode = "local") =>
         (/\ StartResolves_local # {} =>
                /\ Len(NewNotifs) = 2
                /\ NewNotifs[1].ev = "stopOnEntry" /\ IsOutputOfLine(NewNotifs[2])
          /\ Len(stepLog') = Len(stepLog) + 1 =>
                IF stepLog'[Len(stepLog')].ended
                THEN /\ Len(NewNotifs) = 1 /\ NewNotifs[1].ev = "end"
                     /\ mockLine' = mockLine
                ELSE /\ Len(NewNotifs) = 2
                     /\ NewNotifs[1].ev = "stopOnStep" /\ IsOutputOfLine(NewNotifs[2])
                     /\ mockLine' = mockLine + 1) ]_vars

\* in the local mock a step moved to the last line of a three-line program and
\* its stopped event and then its output event were written; a later step ended
C38_Witness ==
    /\ mode = "local" /\ Len(sourceLines) = 3
    /\ \E k, l \in DOMAIN stepLog :
          /\ k < l /\ ~stepLog[k].ended /\ stepLog[k].raised[2].line = 2
          /\ stepLog[l].ended
    /\ \E p \in StoppedAt("step") :
          /\ p + 1 \in EventsAt("output")
          /\ log[p + 1].body.text[1] = sourceLines[3]

(* C39 *)
\* the launches of the local mock whose start has resolved
Started_local == {i \in Ids : mode = "local" /\ reqs[i].kind = "launch" /\ reqs[i].pc = "done"}

FramesAnswered ==
    {i \in DOMAIN reqs' :
        /\ reqs'[i].kind = "stackTrace" /\ reqs'[i].pc = "done"
        /\ i \in DOMAIN reqs => reqs[i].pc = "getting"}

\* the frames the backend may have replied to request i with: over HTTP what it
\* answers to the call, over the socket the message the request received
Replied(i) ==
    IF mode = "http"
    THEN {r.frames : r \in BackendReplies(Call(i, 0, "Stackframe/Get", 0))}
    ELSE {reqs'[i].got[1].frames}

\* out is the stack `frames` as the session hands it on: as many frames, in the
\* same order, each with its index, name and line, and with the session's
\* source path as its file, the empty string before any start
Relabelled(frames, out) ==
    /\ Len(out) = Len(frames)
    /\ \A k \in DOMAIN out :
          /\ out[k].id = frames[k].index /\ out[k].name = frames[k].name
          /\ out[k].line = convertDebuggerLineToClient(frames[k].line)
          /\ out[k].source = (IF sourcePath = Undefined THEN "" ELSE sourcePath)

\* C40: the step that answers a stackTrace request writes one response; over HTTP
\* and over the socket its frames are the frames of the backend's reply with the
\* file of every frame replaced by the session's source path; in the local mock
\* it is exactly one frame, of index 0, at the current line, with that file
C40_FramesRelabelled ==
    [][ \A i \in FramesAnswered :
            LET answer == log'[Len(log')]
                out == answer.body.stackFrames
            IN /\ answer.t = "response" /\ answer.req = i
               /\ sourcePath' = sourcePath /\ mockLine' = mockLine
               /\ IF mode = "local"
                  THEN /\ Len(out) = 1 /\ out[1].id = 0
                       /\ Relabelled(<<[index |-> 0, name |-> out[1].name,
                                         line |-> mockLine]>>, out)
                  ELSE \E frames \in Replied(i) : Relabelled(frames, out) ]_vars

\* over HTTP a stack of two frames was handed on after a launch had set the
\* source path
C40_Witness ==
    \E i \in Ids : \E p \in Successes(i) :
        /\ mode = "http" /\ reqs[i].kind = "stackTrace" /\ sourcePath # Undefined
        /\ Len(reqs) = i
        /\ Len(log[p].body.stackFrames) = 2
        /\ log[p].body.stackFrames[1].source = sourcePath
====
